---- MODULE Spec2Model ----
(***************************************************************************)
(* A model of the RustyGw2 overlay core:                                   *)
(*   - the MumbleLink bridge (Overlay/src/gw2link.rs): a UDP socket whose   *)
(*     datagrams are copied into a shared LinkedMem region;                *)
(*   - the marker category / POI data model (Overlay/src/gw2poi.rs,        *)
(*     Overlay/src/overlay_data.rs): construction, merge, parent           *)
(*     resolution and inherited attribute getters;                         *)
(*   - trail track loading and ribbon mesh generation                      *)
(*     (Overlay/src/trail.rs).                                             *)
(* Each part has its own specification over the shared variables.          *)
(***************************************************************************)
EXTENDS Integers, Sequences, FiniteSets, TLC

VARIABLES
    gw2_data,       \* GW2Link.gw2_data: the LinkedMem record in the shared region
    socket,         \* datagrams pending on GW2Link.socket, oldest first
    call,           \* the last update_gw2 call that acted on the region, or NoCall
    latest,         \* the valid-size datagram received most recently, if any
    frame,          \* the Update system update_gw2: position, camera, CurrentLevel, events
    ui,             \* a MumbleContext.ui_state and the last get_ui_state query on it
    boot,           \* GW2Link::new: the named segment, the calls made and the outcome
    threads,        \* the threads working on overlay_data: lock operations left, locks held
    world,          \* the ECS world: the marker and trail entities that are live
    trail_data,     \* Trail.trail_data of the trail whose ribbon is generated
    meshes,         \* what Trail::generate_meshes returned, or NotGenerated
    overlay_data,   \* setup's OverlayData: marker_category, pois.poi_list, pois.trail_list
    files,          \* the track files under Overlay/assets: name -> bytes, or no entry
    custom_projection,  \* the build's feature "custom_projection"
    pc,             \* setup's position: "loading" the files, or "resolved"
    calls,          \* setter calls made on overlay_data since it was loaded
    last            \* the last operation on overlay_data and what it returned

side_vars == <<threads, world>>

app_vars == <<frame, ui, boot, side_vars>>

link_vars == <<gw2_data, socket, call, latest, app_vars>>

mesh_vars == <<trail_data, meshes>>

overlay_vars == <<overlay_data, files, custom_projection, pc, calls, last>>

vars == <<gw2_data, socket, call, latest, frame, ui, boot, threads, world, trail_data, meshes,
          overlay_data, files, custom_projection, pc, calls, last>>

(***************************************************************************)
(* Bounds.                                                                 *)
(***************************************************************************)
MaxQueue == 2       \* datagrams pending on the socket
MaxSeed == 1        \* distinct payloads the helper sends: seeds 0..MaxSeed
MaxPoints == 5      \* points of the trail whose ribbon is generated
MaxTriples == 2     \* full {x,y,z} triples in a track file
MaxLoaded == 4      \* points a trail holds after its track file was loaded
MaxCats == 3        \* category records in the loaded files, nested ones included
MaxPois == 1        \* POI and Trail records in the loaded files
MaxChain == 2       \* nesting depth of the categories of an inheritance scenario
MaxCalls == 1       \* setter calls made after loading

Min(a, b) == IF a < b THEN a ELSE b

RECURSIVE SumTo(_, _)
SumTo(f, n) == IF n = 0 THEN 0 ELSE f[n] + SumTo(f, n - 1)

(***************************************************************************)
(* Option<T>: << >> is None and <<v>> is Some(v).                          *)
(***************************************************************************)
NoneOpt == << >>

Some(v) == <<v>>

(***************************************************************************)
(* OverlayData::default() and a file system without track files: the       *)
(* state of the overlay part while another part runs.                      *)
(***************************************************************************)
OverlayDataDefault ==
    [ marker_category |-> << >>,
      pois |-> [ poi_list |-> << >>, trail_list |-> << >> ] ]

NoOperation == [ op |-> "none" ]

OverlayIdle ==
    /\ overlay_data = OverlayDataDefault
    /\ files = << >>
    /\ custom_projection = FALSE
    /\ pc = "loading"
    /\ calls = 0
    /\ last = NoOperation

(***************************************************************************)
(* main.rs: the camera entity and the resources of the Update system       *)
(* update_gw2, as setup and main leave them.                               *)
(***************************************************************************)
\* A Vec3 read from a three-float field of the record: the field's value and
\* which of its components have been negated ("none", "z" or "all").
Vec3(field, flip) == [ field |-> field, flip |-> flip ]

\* Transform::default(): translation Vec3::ZERO, rotation Quat::IDENTITY.
TransformDefault ==
    [ translation |-> Vec3(0, "none"),
      rotation |-> [ kind |-> "identity", toward |-> Vec3(0, "none") ] ]

\* The system is not running ("idle"), the camera is as spawned, the resource
\* is CurrentLevel(0) and no MapChangeEvent was sent.
FrameIdle ==
    [ pc |-> "idle", camera |-> TransformDefault, current_level |-> 0,
      events |-> << >> ]

\* MumbleContext::default() and no query made.
UiIdle == [ ui_state |-> 0, option |-> 0, res |-> FALSE ]

\* No thread works on the overlay data: nothing to do, no lock held.
ThreadIds == { "fill", "reader" }

ThreadsIdle ==
    [ policy |-> "any", reads |-> 0,
      run |-> [ t \in ThreadIds |-> [ todo |-> << >>, held |-> << >> ] ] ]

\* No entity with a BevyPOI or BevyTrail component was spawned, no
\* MapChangeEvent was handled.
WorldIdle == [ live |-> {}, handled |-> << >> ]

SideIdle ==
    /\ threads = ThreadsIdle
    /\ world = WorldIdle

AppIdle ==
    /\ frame = FrameIdle
    /\ ui = UiIdle
    /\ SideIdle

(***************************************************************************)
(* gw2link.rs: the wire record LinkedMemNet and the mapped record          *)
(* LinkedMem.  Every field is held as one value standing for its bytes.    *)
(***************************************************************************)
NetFields ==
    << "ui_version", "ui_tick", "avatar_position", "avatar_front", "avatar_top",
       "name", "camera_position", "camera_front", "camera_top", "identity",
       "context_len", "context" >>

NumNetFields == Len(NetFields)

\* Packed byte size of each field of LinkedMemNet, in declaration order:
\* u32, u32, [f32;3] x3, [u16;256], [f32;3] x3, [u16;256], u32, [u8;256].
NetFieldBytes == << 4, 4, 12, 12, 12, 512, 12, 12, 12, 512, 4, 256 >>

\* The description counted as one byte per UTF-16 unit.
DescriptionBytes_OneBytePerUnit == 1 * 2048

\* description: [u16; 2048]
DescriptionBytes == 2 * 2048

\* const STRUCT_SIZE: usize = size_of::<LinkedMemNet>()
STRUCT_SIZE == SumTo(NetFieldBytes, NumNetFields)

\* A datagram is the sequence of the chunks the helper wrote: chunk i <= 12 holds
\* the bytes of wire field i, a 13th chunk holds trailing bytes (a helper that
\* sends the description as well).
ChunkBytes == NetFieldBytes \o << DescriptionBytes >>

DatagramSize(d) == SumTo(ChunkBytes, Len(d))

ChunkVal(k, i) == IF i = 2 THEN k ELSE 10 * i + k

DatagramLens == {0, NumNetFields - 1, NumNetFields, NumNetFields + 1}

Datagrams ==
    { [i \in 1..n |-> ChunkVal(k, i)] : k \in 0..MaxSeed, n \in DatagramLens }

FieldIndex(f) == CHOOSE i \in 1..NumNetFields : NetFields[i] = f

\* let mut data: [u8; STRUCT_SIZE] = [0; STRUCT_SIZE]; socket.recv(&mut data):
\* the datagram is copied into the zeroed buffer up to the buffer's size, the
\* rest of a longer datagram is discarded, and the count of bytes copied is
\* returned.
Recv(d) ==
    [ size |-> Min(DatagramSize(d), STRUCT_SIZE),
      data |-> [i \in 1..NumNetFields |-> IF i <= Len(d) THEN d[i] ELSE 0] ]

\* std::mem::transmute(data): the buffer read as a LinkedMemNet.
Transmute(data) == [f \in { NetFields[i] : i \in 1..NumNetFields } |-> data[FieldIndex(f)]]

\* The conversion with the description the region held left in place.
FromNet_NoDescriptionReset(value, old) ==
    [ ui_version |-> value.ui_version, ui_tick |-> value.ui_tick,
      avatar_position |-> value.avatar_position,
      avatar_front |-> value.avatar_front,
      avatar_top |-> value.avatar_top,
      name |-> value.name,
      camera_position |-> value.camera_position,
      camera_front |-> value.camera_front,
      camera_top |-> value.camera_top,
      identity |-> value.identity,
      context_len |-> value.context_len,
      context |-> value.context,
      description |-> old.description ]

\* impl From<LinkedMemNet> for LinkedMem, assigned over the old record `old`
\* of the region (*self.gw2_data.mem = LinkedMem::from(mem_net)).
FromNet(value, old) ==
    [ ui_version |-> value.ui_version, ui_tick |-> value.ui_tick,
      avatar_position |-> value.avatar_position,
      avatar_front |-> value.avatar_front,
      avatar_top |-> value.avatar_top,
      name |-> value.name,
      camera_position |-> value.camera_position,
      camera_front |-> value.camera_front,
      camera_top |-> value.camera_top,
      identity |-> value.identity,
      context_len |-> value.context_len,
      context |-> value.context,
      description |-> 0 ]

\* memset(map, 0, size_of::<LinkedMem>()) in GW2Link::new
ZeroLinkedMem ==
    [ ui_version |-> 0, ui_tick |-> 0, avatar_position |-> 0, avatar_front |-> 0,
      avatar_top |-> 0, name |-> 0, camera_position |-> 0, camera_front |-> 0,
      camera_top |-> 0, identity |-> 0, context_len |-> 0, context |-> 0,
      description |-> 0 ]

\* The last update_gw2 call: what recv gave it ("timeout" for Err, "datagram"
\* for Ok), the datagram, what the call returned and the region before it.
NoCall == [kind |-> "none", recv |-> << >>, ret |-> FALSE, before |-> ZeroLinkedMem]

\* size_of::<LinkedMem>(): the wire fields and the description, packed.
LinkedMemSize == SumTo(ChunkBytes, Len(ChunkBytes))

\* GW2Link::new has returned Some(link) after creating, sizing and mapping
\* the segment.
BootIdle ==
    [ pc |-> "done", exists |-> TRUE, size |-> LinkedMemSize, before |-> ZeroLinkedMem,
      path |-> "created", shm_opens |-> 2, ftruncated |-> Some(LinkedMemSize),
      mapped |-> Some(LinkedMemSize), failed |-> "none", link |-> "some",
      aborted |-> FALSE ]

\* The link right after GW2Link::new created the segment: the state of the
\* link part while another part runs.
LinkIdle ==
    /\ gw2_data = ZeroLinkedMem
    /\ socket = << >>
    /\ call = NoCall
    /\ latest = NoneOpt
    /\ AppIdle
    /\ boot = BootIdle

\* No trail has been handed to generate_meshes.
MeshIdle ==
    /\ trail_data = << >>
    /\ meshes = [done |-> FALSE, meshes |-> << >>]

LinkInit ==
    /\ LinkIdle
    /\ MeshIdle
    /\ OverlayIdle

\* The helper process sends one datagram to 127.0.0.1:7070.
Send ==
    /\ Len(socket) < MaxQueue
    /\ \E d \in Datagrams : socket' = Append(socket, d)
    /\ UNCHANGED <<gw2_data, call, latest, app_vars>>
    /\ UNCHANGED <<mesh_vars, overlay_vars>>

\* A record as another mapper of the segment holds it: description in use.
ExternalRecord(k) ==
    [FromNet(Transmute([i \in 1..NumNetFields |-> ChunkVal(k, i)]), ZeroLinkedMem)
        EXCEPT !.description = 1]

\* Another mapper of the MAP_SHARED segment writes a record with a non-zero
\* description into it.
ExternalWrite ==
    /\ \E k \in 0..MaxSeed : gw2_data' = ExternalRecord(k)
    /\ call' = NoCall
    /\ UNCHANGED <<socket, latest, app_vars>>
    /\ UNCHANGED <<mesh_vars, overlay_vars>>

\* GW2Link::update_gw2(block): one recv; Err (nothing pending within the
\* timeout) returns false, a datagram of STRUCT_SIZE received bytes is
\* converted and written to the region, any other size returns false.
update_gw2(block) ==
    /\ UNCHANGED <<mesh_vars, overlay_vars>>
    /\ IF socket = << >>
       THEN /\ call' = [kind |-> "timeout", recv |-> << >>, ret |-> FALSE,
                        before |-> gw2_data]
            /\ UNCHANGED <<gw2_data, socket, latest>>
       ELSE LET d == Head(socket)
                r == Recv(d)
            IN  /\ socket' = Tail(socket)
                /\ latest' = IF DatagramSize(d) = STRUCT_SIZE THEN Some(d) ELSE latest
                /\ IF r.size = STRUCT_SIZE
                   THEN /\ gw2_data' = FromNet(Transmute(r.data), gw2_data)
                        /\ call' = [kind |-> "datagram", recv |-> d, ret |-> TRUE,
                                    before |-> gw2_data]
                   ELSE /\ gw2_data' = gw2_data
                        /\ call' = [kind |-> "datagram", recv |-> d, ret |-> FALSE,
                                    before |-> gw2_data]

\* update_gw2 called outside the frame system, blocking or not.
Poll == \E block \in BOOLEAN : update_gw2(block) /\ UNCHANGED app_vars

LinkNext ==
    \/ Send
    \/ ExternalWrite
    \/ Poll


SpecLink == LinkInit /\ [][LinkNext]_vars

\* static_assertions::const_assert_eq!(size_of::<LinkedMemNet>(), 1364)
WireSize == 1364

\* C1: for every received datagram of exactly 1364 bytes, update_gw2 returns
\* true and afterwards the region holds a record whose every wire field equals
\* the datagram's field and whose description is all zero.
C1_ValidDatagramCopied ==
    (call.kind = "datagram" /\ DatagramSize(call.recv) = WireSize) =>
        /\ call.ret = TRUE
        /\ \A i \in 1..NumNetFields : gw2_data[NetFields[i]] = call.recv[i]
        /\ gw2_data.description = 0

\* A datagram of exactly 1364 bytes was consumed while the region held a
\* record with a non-zero description and other field values.
C1_Witness ==
    /\ call.kind = "datagram"
    /\ DatagramSize(call.recv) = WireSize
    /\ call.before.description # 0
    /\ call.before.ui_tick # call.recv[2]
    /\ call.ret = TRUE

\* C2: for every datagram whose size differs from 1364 bytes, shorter or
\* longer, the update_gw2 call that receives it returns false and leaves the
\* shared region unchanged.
C2_WrongSizeRejected ==
    (call.kind = "datagram" /\ DatagramSize(call.recv) # WireSize) =>
        /\ call.ret = FALSE
        /\ gw2_data = call.before

(***************************************************************************)
(* trail.rs: ribbon geometry.  An f32 is held as its sign and its 31        *)
(* magnitude bits; a                                                       *)
(* vertex position is held as the term that computes it: which points of   *)
(* trail_data (by index) it is derived from.                               *)
(***************************************************************************)
F32(neg, mag) == [neg |-> neg, mag |-> mag]

\* The magnitude bits (exponent and mantissa) of 0.5, 1.0, 2.0 and infinity.
MagHalf == 126 * (2 ^ 23)
MagOne == 127 * (2 ^ 23)
MagTwo == 128 * (2 ^ 23)
MagInf == 255 * (2 ^ 23)

\* `x as i32 == 0`: the cast truncates toward zero and maps NaN to 0.
TruncIsZero(f) == f.mag < MagOne \/ f.mag > MagInf

TrailPoint(x, y, z) == [x |-> x, y |-> y, z |-> z]

\* current_data.x as i32 == 0 && current_data.y as i32 == 0 && current_data.z as i32 == 0
IsSentinel(p) == TruncIsZero(p.x) /\ TruncIsZero(p.y) /\ TruncIsZero(p.z)

\* Vec3::ZERO
ZeroPos == [kind |-> "zero", from |-> 0, at |-> 0, side |-> 0]

\* Vec3::from_array([trail.x -/+ width, trail.y, trail.z]) for the point at index i
StartRail(i, side) == [kind |-> "start", from |-> 0, at |-> i, side |-> side]

\* Trail::get_perpendicular_point(p1, p2, distance): out1 and out2, for p1 the
\* point at index j and p2 the point at index i.
get_perpendicular_point(j, i) ==
    << [kind |-> "perp", from |-> j, at |-> i, side |-> 1],
       [kind |-> "perp", from |-> j, at |-> i, side |-> 2] >>

\* Vertex::new(pos, Vec4::ONE, Vec2::new(u, v)); v is 0 or the segment's frac.
Vertex(pos, u, v) == [pos |-> pos, color |-> "ONE", tex_coord |-> <<u, v>>]

\* 1.0f32.max(distance / width) * -1.0 for the segment from index j to index i
Frac(j, i) == [frac |-> <<j, i>>]

\* create_mesh(vertices, indices)
create_mesh(vertices, indices) == [vertices |-> vertices, indices |-> indices]

MeshStart ==
    [ meshes |-> << >>, vertices |-> << >>, indices |-> << >>, current_index |-> 0,
      prev_data |-> 0, prev_p1 |-> ZeroPos, prev_p2 |-> ZeroPos ]

\* MeshStep whose flush at a sentinel keeps counting the indices on.
MeshStep_keeping_current_index(st, pts, i) ==
    IF IsSentinel(pts[i])
    THEN IF Len(st.vertices) > 0 /\ Len(st.indices) > 0
         THEN [st EXCEPT !.meshes = Append(@, create_mesh(st.vertices, st.indices)),
                         !.vertices = << >>,
                         !.indices = << >>,
                         !.prev_data = 0]
         ELSE st
    ELSE IF st.prev_data # 0
         THEN LET perp == get_perpendicular_point(st.prev_data, i)
                  ci == st.current_index
              IN  [st EXCEPT
                     !.vertices = @ \o << Vertex(st.prev_p1, 0, 0),
                                          Vertex(st.prev_p2, 1, 0),
                                          Vertex(perp[2], 1, Frac(st.prev_data, i)),
                                          Vertex(perp[1], 0, Frac(st.prev_data, i)) >>,
                     !.prev_p1 = perp[1],
                     !.prev_p2 = perp[2],
                     !.indices = @ \o << ci, ci + 1, ci + 2, ci + 2, ci + 3, ci >>,
                     !.current_index = ci + 4,
                     !.prev_data = i]
         ELSE [st EXCEPT !.prev_p1 = StartRail(i, 1),
                         !.prev_p2 = StartRail(i, 2),
                         !.prev_data = i]

\* The body of the closure of generate_meshes for the point at index i;
\* prev_data is the index of the previous point, 0 for Option::None.
MeshStep(st, pts, i) ==
    IF IsSentinel(pts[i])
    THEN IF Len(st.vertices) > 0 /\ Len(st.indices) > 0
         THEN [st EXCEPT !.meshes = Append(@, create_mesh(st.vertices, st.indices)),
                         !.vertices = << >>,
                         !.indices = << >>,
                         !.current_index = 0,
                         !.prev_data = 0]
         ELSE st
    ELSE IF st.prev_data # 0
         THEN LET perp == get_perpendicular_point(st.prev_data, i)
                  ci == st.current_index
              IN  [st EXCEPT
                     !.vertices = @ \o << Vertex(st.prev_p1, 0, 0),
                                          Vertex(st.prev_p2, 1, 0),
                                          Vertex(perp[2], 1, Frac(st.prev_data, i)),
                                          Vertex(perp[1], 0, Frac(st.prev_data, i)) >>,
                     !.prev_p1 = perp[1],
                     !.prev_p2 = perp[2],
                     !.indices = @ \o << ci, ci + 1, ci + 2, ci + 2, ci + 3, ci >>,
                     !.current_index = ci + 4,
                     !.prev_data = i]
         ELSE [st EXCEPT !.prev_p1 = StartRail(i, 1),
                         !.prev_p2 = StartRail(i, 2),
                         !.prev_data = i]

RECURSIVE MeshFold(_, _, _)
MeshFold(st, pts, i) ==
    IF i > Len(pts) THEN st ELSE MeshFold(MeshStep(st, pts, i), pts, i + 1)

\* Trail::generate_meshes(&self) -> Vec<Mesh>
generate_meshes(pts) ==
    LET st == MeshFold(MeshStart, pts, 1)
    IN  IF Len(st.vertices) > 0 /\ Len(st.indices) > 0
        THEN Append(st.meshes, create_mesh(st.vertices, st.indices))
        ELSE st.meshes

\* The points a trail is made of here: the origin, a point that truncates to
\* the origin, and two points that do not.
TrailPoints ==
    { TrailPoint(F32(FALSE, 0), F32(FALSE, 0), F32(FALSE, 0)),
      TrailPoint(F32(FALSE, MagHalf), F32(FALSE, 0), F32(TRUE, 0)),
      TrailPoint(F32(FALSE, MagOne), F32(FALSE, 0), F32(FALSE, 0)),
      TrailPoint(F32(TRUE, MagTwo), F32(FALSE, MagOne), F32(FALSE, 0)) }

SeqsUpTo(S, n) == UNION { [1..k -> S] : k \in 0..n }

NotGenerated == [done |-> FALSE, meshes |-> << >>]

MeshInit ==
    /\ trail_data \in SeqsUpTo(TrailPoints, MaxPoints)
    /\ meshes = NotGenerated
    /\ LinkIdle
    /\ OverlayIdle

\* map_change_event: let trail_meshes = trail.generate_meshes()
GenerateMeshes ==
    /\ ~meshes.done
    /\ meshes' = [done |-> TRUE, meshes |-> generate_meshes(trail_data)]
    /\ UNCHANGED trail_data
    /\ UNCHANGED <<link_vars, overlay_vars>>

MeshNext == GenerateMeshes

SpecMesh == MeshInit /\ [][MeshNext]_vars

\* The indices of the points of trail_data that mesh m is built from.
MeshSources(m) ==
    UNION { {m.vertices[v].pos.from, m.vertices[v].pos.at} \ {0} :
            v \in 1..Len(m.vertices) }

SentinelsOf(pts) == { i \in 1..Len(pts) : IsSentinel(pts[i]) }

\* C9: for a point sequence with exactly one sentinel, neither first nor last,
\* generate_meshes outputs the strip of the points before the sentinel and the
\* strip of the points after it, each built only from its own points; a strip
\* of one point contributes no geometry.
C9_OneSentinelTwoStrips ==
    (meshes.done /\ Cardinality(SentinelsOf(trail_data)) = 1) =>
        LET s == CHOOSE i \in SentinelsOf(trail_data) : TRUE
            n == Len(trail_data)
            before == 1..(s - 1)
            after == (s + 1)..n
            out == meshes.meshes
        IN  (1 < s /\ s < n) =>
              /\ Len(out) = (IF s - 1 >= 2 THEN 1 ELSE 0) + (IF n - s >= 2 THEN 1 ELSE 0)
              /\ \A k \in 1..Len(out) :
                    \/ MeshSources(out[k]) = before /\ s - 1 >= 2 /\ k = 1
                    \/ MeshSources(out[k]) = after /\ n - s >= 2 /\ k = Len(out)

(***************************************************************************)
(* gw2poi.rs: strings are sequences of characters, so that splitting a     *)
(* dotted path is computed as str::split_once computes it.                 *)
(***************************************************************************)
DotChar == "."

\* str::split_once('.'): None when there is no dot, else the text before the
\* first dot and the text after it.
split_once(s) ==
    LET dots == { i \in 1..Len(s) : s[i] = DotChar }
    IN  IF dots = {}
        THEN NoneOpt
        ELSE LET i == CHOOSE d \in dots : \A e \in dots : d <= e
             IN  Some([ first |-> SubSeq(s, 1, i - 1),
                        second |-> SubSeq(s, i + 1, Len(s)) ])

(***************************************************************************)
(* gw2poi.rs: InheritablePOIData, POI and MarkerCategory.  Of the          *)
(* inheritable attributes the model keeps icon_file and map_id.  A parent  *)
(* is a reference to a node of overlay_data.marker_category: the index of  *)
(* its root and the child names leading to it.                             *)
(***************************************************************************)
InheritableFields == { "icon_file", "map_id" }

InheritablePOIData(icon_file, map_id) ==
    [ icon_file |-> icon_file, map_id |-> map_id ]

\* struct POI: poi_type (xml attribute "type"), the flattened inheritable
\* data, and the parent, which deserialization skips.
POI(poi_type, data, parent) ==
    [ poi_type |-> poi_type, data |-> data, parent |-> parent ]

NodeRef(root, path) == [ root |-> root, path |-> path ]

MarkerCategory(name, children, data) ==
    [ name |-> name, children |-> children, data |-> data ]

\* deserialize_poi leaving in every record a parent link to the first
\* top-level category.
deserialize_poi_with_parent(raw) ==
    [ poi_type |-> raw.poi_type,
      data |-> [ icon_file |-> raw.icon_file, map_id |-> raw.map_id ],
      parent |-> << [ root |-> 1, path |-> << >> ] >> ]

\* deserialize_poi for a <POI> element: parent is #[serde(skip)].
deserialize_poi(raw) ==
    POI(raw.poi_type, InheritablePOIData(raw.icon_file, raw.map_id), NoneOpt)

\* The derived Deserialize of MarkerCategory together with
\* deserialize_marker_category_hashmap: the children vector is collected
\* into a map keyed by name, so of siblings with one name the later stays.
RECURSIVE deserialize_marker_category(_)
deserialize_marker_category_hashmap(raws) ==
    LET names == { raws[i].name : i \in 1..Len(raws) }
        lastOf(n) == CHOOSE i \in 1..Len(raws) :
                        /\ raws[i].name = n
                        /\ \A j \in 1..Len(raws) : raws[j].name = n => j <= i
    IN  [ n \in names |-> deserialize_marker_category(raws[lastOf(n)]) ]

deserialize_marker_category(raw) ==
    MarkerCategory(raw.name,
                   deserialize_marker_category_hashmap(raw.children),
                   deserialize_poi(raw))

\* deserialize_marker_category_vec: OverlayData.marker_category keeps the
\* top-level categories as a vector, in document order.
deserialize_marker_category_vec(raws) ==
    [ i \in 1..Len(raws) |-> deserialize_marker_category(raws[i]) ]

\* struct Trail: the track file name, the POI data and the loaded points.
Trail(trail_file, poi, points) ==
    [ trail_file |-> trail_file, poi |-> poi, trail_data |-> points ]

deserialize_trail(raw) ==
    Trail(raw.trail_file, deserialize_poi(raw), << >>)

\* OverlayData::from_string: the document's categories, POIs and trails.
from_string(doc) ==
    [ marker_category |-> deserialize_marker_category_vec(doc.MarkerCategory),
      pois |-> [ poi_list |-> [ i \in 1..Len(doc.POI) |-> deserialize_poi(doc.POI[i]) ],
                 trail_list |-> [ i \in 1..Len(doc.Trail) |->
                                    deserialize_trail(doc.Trail[i]) ] ] ]

\* OverlayData::merge: the other data's lists are appended to this one's.
merge(self, other) ==
    [ marker_category |-> self.marker_category \o other.marker_category,
      pois |-> [ poi_list |-> self.pois.poi_list \o other.pois.poi_list,
                 trail_list |-> self.pois.trail_list \o other.pois.trail_list ] ]

(***************************************************************************)
(* gw2poi.rs: nodes behind references, the attribute getters and setters.  *)
(***************************************************************************)
RECURSIVE Descend(_, _)
Descend(node, path) ==
    IF path = << >> THEN node
    ELSE Descend(node.children[Head(path)], Tail(path))

\* The category behind an Arc: read().unwrap() of a MarkerCategoryContainer.
NodeAt(od, ref) == Descend(od.marker_category[ref.root], ref.path)

\* get_<field> asking the parent for its own value only, not for its
\* get_<field>().
get_field_one_hop(od, poi, field) ==
    IF poi.data[field] # NoneOpt
    THEN poi.data[field]
    ELSE IF poi.parent # NoneOpt
         THEN NodeAt(od, poi.parent[1]).data.data[field]
         ELSE NoneOpt

\* getter_setter_poi!: get_<field> is the own value when present, else the
\* parent's data.get_<field>(), else None.
RECURSIVE get_field(_, _, _)
get_field(od, poi, field) ==
    IF poi.data[field] # NoneOpt
    THEN poi.data[field]
    ELSE IF poi.parent # NoneOpt
         THEN get_field(od, NodeAt(od, poi.parent[1]).data, field)
         ELSE NoneOpt

\* set_<field> storing the value in every inheritable attribute.
set_field_every(poi, field, data) ==
    [ poi EXCEPT !.data = [ f \in InheritableFields |-> data ] ]

\* getter_setter_poi!: set_<field> stores the own value.
set_field(poi, field, data) == [ poi EXCEPT !.data[field] = data ]

\* PoiTrait::set_parent for POI.
set_parent(poi, parent) == [ poi EXCEPT !.parent = parent ]

\* get_category_children returning the child named by the first segment
\* without descending along the rest of the path.
get_category_children_first_segment(self, ref, name) ==
    LET next_name == split_once(name)
        child_name == IF next_name # NoneOpt THEN next_name[1].first ELSE name
    IN  IF child_name \in DOMAIN self.children
        THEN Some(NodeRef(ref.root, Append(ref.path, child_name)))
        ELSE NoneOpt

\* get_category_children going on with the rest of the name in the same
\* category when a segment names no child.
RECURSIVE get_category_children_skipping(_, _, _)
get_category_children_skipping(self, ref, name) ==
    LET next_name == split_once(name)
        child_name == IF next_name # NoneOpt THEN next_name[1].first ELSE name
        pass_name == IF next_name # NoneOpt THEN next_name[1].second ELSE << >>
    IN  IF child_name \in DOMAIN self.children
        THEN LET child == self.children[child_name]
                 child_ref == NodeRef(ref.root, Append(ref.path, child_name))
             IN  IF name = child.name
                 THEN Some(child_ref)
                 ELSE get_category_children_skipping(child, child_ref, pass_name)
        ELSE IF next_name # NoneOpt
             THEN get_category_children_skipping(self, ref, pass_name)
             ELSE NoneOpt

\* MarkerCategory::get_category_children, for the category self behind ref:
\* the reference of the descendant the dotted name leads to, or None.
RECURSIVE get_category_children(_, _, _)
get_category_children(self, ref, name) ==
    LET next_name == split_once(name)
        child_name == IF next_name # NoneOpt THEN next_name[1].first ELSE name
        pass_name == IF next_name # NoneOpt THEN next_name[1].second ELSE << >>
    IN  IF child_name \in DOMAIN self.children
        THEN LET child == self.children[child_name]
                 child_ref == NodeRef(ref.root, Append(ref.path, child_name))
             IN  IF name = child.name
                 THEN Some(child_ref)
                 ELSE get_category_children(child, child_ref, pass_name)
        ELSE NoneOpt

(***************************************************************************)
(* trail.rs: Trail::load_map_trail reads the track file of a trail.        *)
(***************************************************************************)
u32_from_le_bytes(b) == b[1] + 256 * b[2] + 65536 * b[3] + 16777216 * b[4]

\* ReadBytesExt::read_f32::<LittleEndian>: the top bit of the last byte is
\* the sign, the other 31 bits are exponent and mantissa.
read_f32(b) ==
    F32(b[4] >= 128, b[1] + 256 * b[2] + 65536 * b[3] + 16777216 * (b[4] % 128))

\* utils.rs, ToGw2Coordinate::as_gw2_coordinate: z is negated.
as_gw2_coordinate(p) == TrailPoint(p.x, p.y, F32(~p.z.neg, p.z.mag))

\* std::mem::size_of::<TrailData>(): three f32.
coord_size == 3 * 4

\* load_map_trail reading the triples from the start of the file, the
\* header included.
load_map_trail_no_header(trail) ==
    IF trail.trail_file \notin DOMAIN files THEN trail
    ELSE LET file == files[trail.trail_file]
             num_coords == Len(file) \div coord_size
             coord(i) == read_f32(SubSeq(file, 4 * i + 1, 4 * i + 4))
             point(i) == TrailPoint(coord(3 * i), coord(3 * i + 1), coord(3 * i + 2))
         IN  IF Len(file) >= 8
             THEN [ trail EXCEPT
                      !.poi = set_field(@, "map_id",
                                        Some(u32_from_le_bytes(SubSeq(file, 5, 8)))),
                      !.trail_data = @ \o
                          [ i \in 1..num_coords |->
                              IF custom_projection THEN point(i - 1)
                              ELSE as_gw2_coordinate(point(i - 1)) ] ]
             ELSE trail

\* load_map_trail clearing the map id of a trail whose track file cannot be
\* opened or is shorter than its header.
load_map_trail_clears_map_id(trail) ==
    IF trail.trail_file \notin DOMAIN files
    THEN [ trail EXCEPT !.poi = set_field(@, "map_id", NoneOpt) ]
    ELSE LET file == files[trail.trail_file]
             buffer == SubSeq(file, 9, Len(file))
             num_coords == Len(buffer) \div coord_size
             coord(i) == read_f32(SubSeq(buffer, 4 * i + 1, 4 * i + 4))
             pos(i) == TrailPoint(coord(3 * i), coord(3 * i + 1), coord(3 * i + 2))
         IN  IF Len(file) >= 8
             THEN [ trail EXCEPT
                      !.poi = set_field(@, "map_id",
                                        Some(u32_from_le_bytes(SubSeq(file, 5, 8)))),
                      !.trail_data = @ \o
                          [ i \in 1..num_coords |->
                              IF custom_projection THEN pos(i - 1)
                              ELSE as_gw2_coordinate(pos(i - 1)) ] ]
             ELSE [ trail EXCEPT !.poi = set_field(@, "map_id", NoneOpt) ]

\* Trail::load_map_trail: the trail after the call, which returns Ok(()) on
\* each of these paths.
load_map_trail(trail) ==
    IF trail.trail_file \notin DOMAIN files
    THEN trail      \* Err(e): logged, Ok(())
    ELSE LET file == files[trail.trail_file]
             total_len == Len(file)
             map_id == u32_from_le_bytes(SubSeq(file, 5, 8))
             buffer == SubSeq(file, 9, total_len)
             num_coords == Len(buffer) \div coord_size
             point(i) ==
                 LET offset == i * coord_size
                     x == read_f32(SubSeq(buffer, offset + 1, offset + 4))
                     y == read_f32(SubSeq(buffer, offset + 5, offset + 8))
                     z == read_f32(SubSeq(buffer, offset + 9, offset + 12))
                     pos == TrailPoint(x, y, z)
                 IN  IF custom_projection THEN pos ELSE as_gw2_coordinate(pos)
         IN  IF total_len >= 8
             THEN [ trail EXCEPT
                      !.poi = set_field(@, "map_id", Some(map_id)),
                      !.trail_data = @ \o [ i \in 1..num_coords |-> point(i - 1) ] ]
             ELSE trail

(***************************************************************************)
(* overlay_data.rs: OverlayData::fill_poi_parents.                         *)
(***************************************************************************)
\* The body of the inner for_each clearing the parent where the category
\* does not match the type of the POI.
fill_poi_category_unbinding(od, poi, i) ==
    LET category == od.marker_category[i]
    IN  IF poi.poi_type = NoneOpt THEN poi
        ELSE LET name == poi.poi_type[1]
                 split == split_once(name)
                 first_name == IF split # NoneOpt THEN split[1].first ELSE name
                 second_name == IF split # NoneOpt THEN split[1].second ELSE << >>
                 found == get_category_children(category, NodeRef(i, << >>), second_name)
             IN  IF category.name = name
                 THEN set_parent(poi, Some(NodeRef(i, << >>)))
                 ELSE IF category.name = first_name /\ found # NoneOpt
                      THEN set_parent(poi, found)
                      ELSE set_parent(poi, NoneOpt)

\* The body of the inner for_each: what one top-level category does to the
\* parent of one POI.
fill_poi_category(od, poi, i) ==
    LET category == od.marker_category[i]
        category_name == poi.poi_type
    IN  IF category_name = NoneOpt THEN poi
        ELSE LET name == category_name[1]
                 split == split_once(name)
                 first_name == IF split # NoneOpt THEN split[1].first ELSE name
                 second_name == IF split # NoneOpt THEN split[1].second ELSE << >>
             IN  IF category.name = name
                 THEN set_parent(poi, Some(NodeRef(i, << >>)))
                 ELSE IF category.name = first_name
                      THEN LET found_category ==
                                  get_category_children(category, NodeRef(i, << >>),
                                                        second_name)
                           IN  IF found_category # NoneOpt
                               THEN set_parent(poi, found_category)
                               ELSE poi
                      ELSE poi

\* self.marker_category.iter().for_each(..) for one POI, from category i on.
RECURSIVE fill_poi(_, _, _)
fill_poi(od, poi, i) ==
    IF i > Len(od.marker_category) THEN poi
    ELSE fill_poi(od, fill_poi_category(od, poi, i), i + 1)

\* fill_poi_parents giving up at the first POI that no category matches.
fill_poi_parents_until_unmatched(od) ==
    [ od EXCEPT
        !.pois.trail_list = [ t \in 1..Len(@) |-> load_map_trail(@[t]) ],
        !.pois.poi_list =
            [ p \in 1..Len(@) |->
                IF \A q \in 1..p : fill_poi(od, @[q], 1).parent # NoneOpt
                THEN fill_poi(od, @[p], 1)
                ELSE @[p] ] ]

fill_poi_parents(od) ==
    [ od EXCEPT
        !.pois.trail_list = [ t \in 1..Len(@) |-> load_map_trail(@[t]) ],
        !.pois.poi_list = [ p \in 1..Len(@) |-> fill_poi(od, @[p], 1) ] ]

(***************************************************************************)
(* Track files.  A file is a sequence of bytes; its content is generated   *)
(* from a seed so that the header, the coordinates and their sign bits     *)
(* differ from offset to offset.                                           *)
(***************************************************************************)
TrackName == "track.trl"

TrackSeeds == { 0, 1 }

TrackByte(seed, offset) == (37 * offset + 101 * seed + 1) % 256

TrackFile(seed, len) == [ o \in 1..len |-> TrackByte(seed, o - 1) ]

HeaderBytes == 4 + 4

MaxFileLen == HeaderBytes + coord_size * MaxTriples + (coord_size - 1)

TrackFiles == { TrackFile(seed, len) : seed \in TrackSeeds, len \in 0..MaxFileLen }

\* The file systems: the track file is missing, or holds one of TrackFiles.
FileSystems == { << >> } \cup { [ n \in { TrackName } |-> f ] : f \in TrackFiles }

\* The number of points load_map_trail adds to a trail.
PointsInFile(trail) ==
    IF trail.trail_file \in DOMAIN files /\ Len(files[trail.trail_file]) >= HeaderBytes
    THEN (Len(files[trail.trail_file]) - HeaderBytes) \div coord_size
    ELSE 0

(***************************************************************************)
(* main.rs, setup: every xml file is parsed and merged, then the parents   *)
(* are filled.  fill_poi_parents is public and may be called again.        *)
(***************************************************************************)
\* The category nodes of a tree and of the whole overlay data.
RECURSIVE CountNodes(_), CountChildren(_, _)
CountChildren(node, names) ==
    IF names = {} THEN 0
    ELSE LET n == CHOOSE x \in names : TRUE
         IN  CountNodes(node.children[n]) + CountChildren(node, names \ { n })

CountNodes(node) == 1 + CountChildren(node, DOMAIN node.children)

CategoryCount(od) ==
    SumTo([ i \in 1..Len(od.marker_category) |-> CountNodes(od.marker_category[i]) ],
          Len(od.marker_category))

PoiCount(od) == Len(od.pois.poi_list) + Len(od.pois.trail_list)

\* Raw <MarkerCategory> records: a name, the inline attributes and the nested
\* records.  RawTrees(n, labels) are the records with n records in all.
RawCategory(label, children) ==
    [ name |-> label.name, poi_type |-> NoneOpt, icon_file |-> label.icon_file,
      map_id |-> NoneOpt, children |-> children ]

RECURSIVE RawTrees(_, _), RawForests(_, _)
RawTrees(n, labels) ==
    IF n = 0 THEN {}
    ELSE { RawCategory(l, f) : l \in labels, f \in RawForests(n - 1, labels) }

RawForests(n, labels) ==
    IF n = 0 THEN { << >> }
    ELSE UNION { { <<t>> \o f : t \in RawTrees(k, labels),
                                f \in RawForests(n - k, labels) } : k \in 1..n }

RawPoi(poi_type, icon_file, map_id) ==
    [ poi_type |-> poi_type, icon_file |-> icon_file, map_id |-> map_id ]

RawTrail(poi_type, icon_file) ==
    [ poi_type |-> poi_type, icon_file |-> icon_file, map_id |-> NoneOpt,
      trail_file |-> TrackName ]

\* An xml document: its top-level <MarkerCategory> records and the <POI> and
\* <Trail> records under <POIs>.
Document(categories, pois, trails) ==
    [ MarkerCategory |-> categories, POI |-> pois, Trail |-> trails ]

\* The documents with one top-level record; merging such documents yields
\* every overlay data that documents with more records yield.  categories[n]
\* are the documents whose top-level category has n records in all.
Documents(labels, rawPois, rawTrails) ==
    [ categories |-> [ n \in 1..MaxCats |->
                         { Document(<<t>>, << >>, << >>) : t \in RawTrees(n, labels) } ],
      entries |-> { Document(<< >>, <<p>>, << >>) : p \in rawPois }
                  \cup { Document(<< >>, << >>, <<t>>) : t \in rawTrails } ]

\* setup's loop body for one file: OverlayData::from_file, then merge.
LoadFile(docs) ==
    /\ pc = "loading"
    /\ \/ \E n \in 1..(MaxCats - CategoryCount(overlay_data)) :
             \E doc \in docs.categories[n] :
                overlay_data' = merge(overlay_data, from_string(doc))
       \/ /\ PoiCount(overlay_data) < MaxPois
          /\ \E doc \in docs.entries :
                overlay_data' = merge(overlay_data, from_string(doc))
    /\ last' = [ op |-> "merge" ]
    /\ UNCHANGED <<files, custom_projection, pc, calls>>
    /\ UNCHANGED <<link_vars, mesh_vars>>

\* OverlayData::fill_poi_parents, as setup calls it after the last merge.
FillPoiParents ==
    /\ \A t \in 1..Len(overlay_data.pois.trail_list) :
          LET trail == overlay_data.pois.trail_list[t]
          IN  Len(trail.trail_data) + PointsInFile(trail) <= MaxLoaded
    /\ overlay_data' = fill_poi_parents(overlay_data)
    /\ pc' = "resolved"
    /\ last' = [ op |-> "fill_poi_parents" ]
    /\ UNCHANGED <<files, custom_projection, calls>>
    /\ UNCHANGED <<link_vars, mesh_vars>>

(***************************************************************************)
(* Track loading on its own: one trail without a type, every track file.   *)
(***************************************************************************)
TrailInit ==
    /\ overlay_data = from_string(Document(<< >>, << >>,
                                           << RawTrail(NoneOpt, NoneOpt) >>))
    /\ files \in FileSystems
    /\ custom_projection \in BOOLEAN
    /\ pc = "loading"
    /\ calls = 0
    /\ last = NoOperation
    /\ LinkIdle
    /\ MeshIdle

TrailNext == FillPoiParents

SpecTrail == TrailInit /\ [][TrailNext]_vars

\* The i-th {x,y,z} triple of a track file, as the three little-endian
\* 32-bit patterns stored after the header.
TripleWord(file, i, c) ==
    LET at == HeaderBytes + coord_size * (i - 1) + 4 * c
    IN  file[at + 1] + 256 * file[at + 2] + 65536 * file[at + 3]
        + 16777216 * (file[at + 4] % 128)

TripleSign(file, i, c) == file[HeaderBytes + coord_size * (i - 1) + 4 * c + 4] >= 128

\* Point p comes from the i-th triple: x and y are the triple's, z is the
\* triple's in the overlay's coordinate system (negated unless the build
\* has custom_projection).
ComesFromTriple(p, file, i) ==
    /\ p.x = F32(TripleSign(file, i, 0), TripleWord(file, i, 0))
    /\ p.y = F32(TripleSign(file, i, 1), TripleWord(file, i, 1))
    /\ p.z.mag = TripleWord(file, i, 2)
    /\ p.z.neg = (TripleSign(file, i, 2) = custom_projection)

FullTriples(file) == (Len(file) - HeaderBytes) \div coord_size

RECURSIVE Join(_)
Join(names) ==
    IF Len(names) = 0 THEN << >>
    ELSE IF Len(names) = 1 THEN names[1]
         ELSE names[1] \o <<DotChar>> \o Join(Tail(names))

NameA == <<"a">>

NameB == <<"b">>

Segments == { NameA, NameB }

\* The names of categories: the plain segments and one name with a dot.
CategoryNames == Segments \cup { Join(<<NameA, NameB>>) }

ResolveLabels == { [ name |-> n, icon_file |-> NoneOpt ] : n \in CategoryNames }

\* The type paths of POIs: up to three segments, the first being "a" (the
\* categories range over both names at every level).
TypePaths ==
    { Join(<<NameA>> \o rest) : rest \in SeqsUpTo(Segments, 2) }

ResolvePois == { RawPoi(t, NoneOpt, NoneOpt) : t \in { NoneOpt } \cup { Some(tp) : tp \in TypePaths } }

ResolveTrails == { RawTrail(Some(Join(names)), NoneOpt) : names \in { <<NameA>>, <<NameA, NameB>> } }

ResolveDocuments == Documents(ResolveLabels, ResolvePois, ResolveTrails)

ResolveInit ==
    /\ overlay_data = OverlayDataDefault
    /\ files = << >>
    /\ custom_projection = FALSE
    /\ pc = "loading"
    /\ calls = 0
    /\ last = NoOperation
    /\ LinkIdle
    /\ MeshIdle

ResolveNext ==
    \/ LoadFile(ResolveDocuments)
    \/ FillPoiParents

SpecResolve == ResolveInit /\ [][ResolveNext]_vars

\* The references of all category nodes, and the dotted sequence of names
\* from the top-level root down to a node.
RECURSIVE PathsBelow(_)
PathsBelow(node) ==
    { << >> } \cup UNION { { <<n>> \o p : p \in PathsBelow(node.children[n]) } :
                            n \in DOMAIN node.children }

AllNodes(od) ==
    UNION { { NodeRef(i, p) : p \in PathsBelow(od.marker_category[i]) } :
            i \in 1..Len(od.marker_category) }

NamesDownTo(od, ref) ==
    [ k \in 1..(Len(ref.path) + 1) |->
        NodeAt(od, NodeRef(ref.root, SubSeq(ref.path, 1, k - 1))).name ]

DottedPath(od, ref) == Join(NamesDownTo(od, ref))

NodesAtPath(od, type_path) ==
    { ref \in AllNodes(od) : DottedPath(od, ref) = type_path }

HasDot(name) == \E i \in 1..Len(name) : name[i] = DotChar

DotFree(od, ref) ==
    \A k \in 1..(Len(ref.path) + 1) : ~HasDot(NamesDownTo(od, ref)[k])

TypedPois(od) ==
    { p \in 1..Len(od.pois.poi_list) : od.pois.poi_list[p].poi_type # NoneOpt }

\* C3: for any category tree and any POI whose type_path is the dotted
\* sequence of names from a top-level root down to an existing node,
\* fill_poi_parents binds the POI's parent to exactly that node; if the path
\* names no node, the POI's parent stays none.
C3_PathBindsToNode ==
    last.op = "fill_poi_parents" =>
        \A p \in TypedPois(overlay_data) :
            LET poi == overlay_data.pois.poi_list[p]
                named == NodesAtPath(overlay_data, poi.poi_type[1])
            IN  /\ \A ref \in named : poi.parent = Some(ref)
                /\ named = {} => poi.parent = NoneOpt

\* C3 (amended): when exactly one node has the POI's type_path as its dotted
\* sequence of names and no name on the way to it contains a '.',
\* fill_poi_parents binds the POI's parent to exactly that node; if the path
\* names no node, the POI's parent stays none.
C3_UniquePathBindsToNode ==
    last.op = "fill_poi_parents" =>
        \A p \in TypedPois(overlay_data) :
            LET poi == overlay_data.pois.poi_list[p]
                named == NodesAtPath(overlay_data, poi.poi_type[1])
            IN  /\ \A ref \in named :
                      (named = { ref } /\ DotFree(overlay_data, ref)) =>
                          poi.parent = Some(ref)
                /\ named = {} => poi.parent = NoneOpt

\* A POI with a path of three segments bound to the node two levels below
\* its root.
C3_Witness ==
    /\ last.op = "fill_poi_parents"
    /\ \E p \in TypedPois(overlay_data) :
          LET poi == overlay_data.pois.poi_list[p]
          IN  /\ poi.parent # NoneOpt
              /\ Len(poi.parent[1].path) = 2
              /\ NodesAtPath(overlay_data, poi.poi_type[1]) = { poi.parent[1] }

\* The match the i-th top-level root yields for a POI on its own: by equal
\* full name, or by first segment plus a successful descendant lookup.
RootMatch(od, poi, i) == fill_poi_category(od, set_parent(poi, NoneOpt), i).parent

MatchingRoots(od, poi) ==
    { i \in 1..Len(od.marker_category) : RootMatch(od, poi, i) # NoneOpt }

\* C6: when more than one top-level root matches a POI's type_path,
\* fill_poi_parents leaves the POI bound to the match obtained from the root
\* declared earliest; a later-declared matching root does not replace it.
C6_EarliestRootWins ==
    last.op = "fill_poi_parents" =>
        \A p \in TypedPois(overlay_data) :
            LET poi == overlay_data.pois.poi_list[p]
                roots == MatchingRoots(overlay_data, poi)
            IN  Cardinality(roots) > 1 =>
                    \E i \in roots :
                        /\ \A j \in roots : i <= j
                        /\ poi.parent = RootMatch(overlay_data, poi, i)

TypedTrails(od) ==
    { t \in 1..Len(od.pois.trail_list) : od.pois.trail_list[t].poi.poi_type # NoneOpt }

\* C7: the resolution pass applies to Trails as well as POIs: after
\* fill_poi_parents, every Trail whose type_path names an existing category
\* path has its parent bound to that category node.
C7_TrailsResolved ==
    last.op = "fill_poi_parents" =>
        \A t \in TypedTrails(overlay_data) :
            LET trail == overlay_data.pois.trail_list[t]
                named == NodesAtPath(overlay_data, trail.poi.poi_type[1])
            IN  named # {} =>
                    /\ trail.poi.parent # NoneOpt
                    /\ trail.poi.parent[1] \in named

(***************************************************************************)
(* Attribute inheritance: one file with nested categories and one POI is   *)
(* loaded; then the parents are filled, setters are called and the POI's   *)
(* getters are read.                                                       *)
(***************************************************************************)
\* A POI or a category of the overlay data: the index of the POI, or the
\* root index and child names of the category.
PoiEntity(p) == [ kind |-> "poi", root |-> p, path |-> << >> ]

CategoryEntity(ref) == [ kind |-> "category", root |-> ref.root, path |-> ref.path ]

Entities(od) ==
    { PoiEntity(p) : p \in 1..Len(od.pois.poi_list) }
    \cup { CategoryEntity(ref) : ref \in AllNodes(od) }

\* The POI record of an entity: the POI itself, or the category's data.
DataOf(od, e) ==
    IF e.kind = "poi" THEN od.pois.poi_list[e.root]
    ELSE NodeAt(od, NodeRef(e.root, e.path)).data

\* write().unwrap() on the entity followed by an assignment of its record.
RECURSIVE WithNodeData(_, _, _)
WithNodeData(node, path, data) ==
    IF path = << >> THEN [ node EXCEPT !.data = data ]
    ELSE [ node EXCEPT !.children[Head(path)] = WithNodeData(@, Tail(path), data) ]

WithData(od, e, data) ==
    IF e.kind = "poi" THEN [ od EXCEPT !.pois.poi_list[e.root] = data ]
    ELSE [ od EXCEPT !.marker_category[e.root] = WithNodeData(@, e.path, data) ]

\* The categories nested under one another, one per level, with the icon of
\* level k being k when present; and a POI typed with a path into them.
ChainNames == <<NameA, NameB, NameA>>

RECURSIVE RawChain(_, _, _)
RawChain(level, depth, icons) ==
    [ name |-> ChainNames[level], poi_type |-> NoneOpt,
      icon_file |-> IF level \in icons THEN Some(level) ELSE NoneOpt,
      map_id |-> NoneOpt,
      children |-> IF level = depth THEN << >>
                   ELSE << RawChain(level + 1, depth, icons) >> ]

\* The values the POI's own attributes have when present.
PoiValues == [ icon_file |-> 7, map_id |-> 50 ]

InheritDocuments ==
    { Document(<< RawChain(1, depth, icons) >>,
               << RawPoi(Some(Join(SubSeq(ChainNames, 1, segments))), icon, map_id) >>,
               << >>) :
        depth \in 1..MaxChain, icons \in SUBSET (1..MaxChain),
        segments \in 1..MaxChain, icon \in { NoneOpt, Some(PoiValues.icon_file) },
        map_id \in { NoneOpt, Some(PoiValues.map_id) } }

InheritInit ==
    /\ overlay_data \in { from_string(doc) : doc \in InheritDocuments }
    /\ files = << >>
    /\ custom_projection = FALSE
    /\ pc = "loading"
    /\ calls = 0
    /\ last = NoOperation
    /\ LinkIdle
    /\ MeshIdle

NewValues == { NoneOpt, Some(9) }

\* set_<field>(data) called on a POI or on a category's data.
SetField ==
    /\ calls < MaxCalls
    /\ \E e \in Entities(overlay_data), field \in InheritableFields, data \in NewValues :
          /\ overlay_data' = WithData(overlay_data, e,
                                      set_field(DataOf(overlay_data, e), field, data))
          /\ last' = [ op |-> "set_field", target |-> e, field |-> field, data |-> data ]
    /\ calls' = calls + 1
    /\ UNCHANGED <<files, custom_projection, pc>>
    /\ UNCHANGED <<link_vars, mesh_vars>>

\* set_parent called on a nested category with its enclosing category, as the
\* tests wire category2 to category.
SetParentCategory ==
    /\ calls < MaxCalls
    /\ \E ref \in AllNodes(overlay_data) :
          /\ ref.path # << >>
          /\ overlay_data' =
                WithData(overlay_data, CategoryEntity(ref),
                         set_parent(NodeAt(overlay_data, ref).data,
                                    Some(NodeRef(ref.root,
                                                 SubSeq(ref.path, 1, Len(ref.path) - 1)))))
          /\ last' = [ op |-> "set_parent", target |-> CategoryEntity(ref) ]
    /\ calls' = calls + 1
    /\ UNCHANGED <<files, custom_projection, pc>>
    /\ UNCHANGED <<link_vars, mesh_vars>>

\* get_<field>() called on a POI, as map_change_event reads map id and icon.
GetField ==
    /\ \E p \in 1..Len(overlay_data.pois.poi_list), field \in InheritableFields :
          last' = [ op |-> "get_field", target |-> PoiEntity(p), field |-> field,
                    result |-> get_field(overlay_data,
                                         overlay_data.pois.poi_list[p], field) ]
    /\ UNCHANGED <<overlay_data, files, custom_projection, pc, calls>>
    /\ UNCHANGED <<link_vars, mesh_vars>>

InheritNext ==
    \/ FillPoiParents
    \/ SetField
    \/ SetParentCategory
    \/ GetField

SpecInherit == InheritInit /\ [][InheritNext]_vars

\* The records on the parent chain of a POI record, nearest first: the POI
\* record itself, its parent's data, the data of the parent's parent, ...
RECURSIVE ParentChain(_, _)
ParentChain(od, poi) ==
    <<poi>> \o (IF poi.parent = NoneOpt THEN << >>
                ELSE ParentChain(od, NodeAt(od, poi.parent[1]).data))

\* The own value of the first record of a chain that has one, else none.
FirstPresent(chain, field) ==
    LET present == { k \in 1..Len(chain) : chain[k].data[field] # NoneOpt }
    IN  IF present = {} THEN NoneOpt
        ELSE chain[CHOOSE k \in present : \A j \in present : k <= j].data[field]

\* C4: get_F on a POI returns the POI's own F when it is present; otherwise,
\* when a parent is bound, the parent's get_F, which applies the same rule up
\* the parent chain; otherwise none.  An own value takes precedence over any
\* ancestor's value.
C4_GetterFollowsChain ==
    last.op = "get_field" =>
        LET poi == DataOf(overlay_data, last.target)
            chain == ParentChain(overlay_data, poi)
        IN  /\ last.result = FirstPresent(chain, last.field)
            /\ poi.data[last.field] # NoneOpt => last.result = poi.data[last.field]
            /\ (poi.data[last.field] = NoneOpt /\ poi.parent = NoneOpt) =>
                  last.result = NoneOpt

\* A getter read on a POI without the value, bound to a category without it,
\* whose parent category has it: the value comes from two hops up.
C4_Witness ==
    /\ last.op = "get_field"
    /\ LET chain == ParentChain(overlay_data, DataOf(overlay_data, last.target))
       IN  /\ Len(chain) >= 3
           /\ chain[1].data[last.field] = NoneOpt
           /\ chain[2].data[last.field] = NoneOpt
           /\ chain[3].data[last.field] # NoneOpt
           /\ last.result = chain[3].data[last.field]

\* get_<field>() of an entity in overlay data od.
Get(od, e, field) == get_field(od, DataOf(od, e), field)

\* The categories an entity inherits through: its parent, the parent's
\* parent, ...
RECURSIVE Ancestors(_, _)
Ancestors(od, poi) ==
    IF poi.parent = NoneOpt THEN {}
    ELSE { CategoryEntity(poi.parent[1]) }
         \cup Ancestors(od, NodeAt(od, poi.parent[1]).data)

\* C5: calling set_F on a child (POI or category) changes only that child's
\* own F: afterwards the child's get_F returns the new value, and the own
\* value and get_F result of its parent and of every other node are unchanged.
C5_SetChangesOnlyChild ==
    [][ last'.op = "set_field" =>
          LET e == last'.target
              f == last'.field
          IN  /\ Get(overlay_data', e, f) = last'.data
              /\ \A o \in Entities(overlay_data) \ { e } :
                    /\ DataOf(overlay_data', o).data[f] = DataOf(overlay_data, o).data[f]
                    /\ Get(overlay_data', o, f) = Get(overlay_data, o, f)
      ]_vars

\* C5 (amended): calling set_F(v) on a node (POI or category) changes only
\* that node's own F: every other attribute and the parent link of the node,
\* and the record of every other node, are unchanged.  Afterwards the
\* node's get_F returns v when v is present, and what its parent's get_F
\* returns (none without a parent) when v is none; get_F is unchanged for the
\* node's ancestors and for every other node that does not inherit through
\* the node.
C5_SetChangesOwnValue ==
    [][ last'.op = "set_field" =>
          LET e == last'.target
              f == last'.field
              v == last'.data
              old == DataOf(overlay_data, e)
          IN  /\ Entities(overlay_data') = Entities(overlay_data)
              /\ DataOf(overlay_data', e) = [ old EXCEPT !.data[f] = v ]
              /\ \A o \in Entities(overlay_data) \ { e } :
                    DataOf(overlay_data', o) = DataOf(overlay_data, o)
              /\ v # NoneOpt => Get(overlay_data', e, f) = v
              /\ (v = NoneOpt /\ old.parent = NoneOpt) =>
                    Get(overlay_data', e, f) = NoneOpt
              /\ (v = NoneOpt /\ old.parent # NoneOpt) =>
                    Get(overlay_data', e, f)
                        = Get(overlay_data, CategoryEntity(old.parent[1]), f)
              /\ \A o \in Entities(overlay_data) \ { e } :
                    e \notin Ancestors(overlay_data, DataOf(overlay_data, o)) =>
                        \A g \in InheritableFields :
                            Get(overlay_data', o, g) = Get(overlay_data, o, g)
      ]_vars

\* A value set on a POI bound to a category from which it inherits another
\* value: the POI's getter returns the new value, the category's the old.
C5_Witness ==
    /\ last.op = "set_field"
    /\ last.target.kind = "poi"
    /\ last.data # NoneOpt
    /\ LET poi == DataOf(overlay_data, last.target)
       IN  /\ poi.parent # NoneOpt
           /\ Get(overlay_data, CategoryEntity(poi.parent[1]), last.field) # NoneOpt
           /\ Get(overlay_data, CategoryEntity(poi.parent[1]), last.field) # last.data
           /\ Get(overlay_data, last.target, last.field) = last.data

\* C8: after the category tree is built from nested raw records and
\* fill_poi_parents has run, a POI bound to a nested category node obtains,
\* for an attribute absent on both the POI and that node, the value set on
\* the nearest enclosing category that has it.
C8_InheritsFromEnclosing ==
    (pc = "resolved" /\ calls = 0) =>
        \A p \in 1..Len(overlay_data.pois.poi_list), f \in InheritableFields :
            LET poi == overlay_data.pois.poi_list[p]
            IN  (poi.parent # NoneOpt /\ poi.data[f] = NoneOpt) =>
                    LET ref == poi.parent[1]
                        enclosing ==
                            [ k \in 1..Len(ref.path) |->
                                NodeAt(overlay_data,
                                       NodeRef(ref.root,
                                               SubSeq(ref.path, 1, Len(ref.path) - k))).data ]
                    IN  (ref.path # << >> /\ NodeAt(overlay_data, ref).data.data[f] = NoneOpt)
                            => get_field(overlay_data, poi, f) = FirstPresent(enclosing, f)

(***************************************************************************)
(* fill_poi_parents over a track file that cannot be read: a category, a   *)
(* POI typed for it, a trail whose track file is any of FileSystems and a  *)
(* second trail whose track file is good.  Both trails carry a map id from *)
(* their xml record.                                                       *)
(***************************************************************************)
SecondName == "second.trl"

\* The map ids the two <Trail> records carry.
XmlMapIds == [ first |-> 50, second |-> 51 ]

\* The second track file: a header and MaxTriples full triples.
SecondFile == TrackFile(1, HeaderBytes + coord_size * MaxTriples)

FillDocument ==
    Document(<< RawCategory([name |-> NameA, icon_file |-> NoneOpt], << >>) >>,
             << RawPoi(Some(NameA), NoneOpt, NoneOpt) >>,
             << [ RawTrail(NoneOpt, NoneOpt) EXCEPT !.map_id = Some(XmlMapIds.first) ],
                [ RawTrail(NoneOpt, NoneOpt) EXCEPT !.map_id = Some(XmlMapIds.second),
                                                    !.trail_file = SecondName ] >>)

FillInit ==
    /\ overlay_data = from_string(FillDocument)
    /\ \E fs \in FileSystems : files = (SecondName :> SecondFile) @@ fs
    /\ custom_projection \in BOOLEAN
    /\ pc = "loading"
    /\ calls = 0
    /\ last = NoOperation
    /\ LinkIdle
    /\ MeshIdle

FillNext == FillPoiParents

SpecFill == FillInit /\ [][FillNext]_vars

\* The track file of a trail cannot be opened or is shorter than 8 bytes.
Unreadable(trail) ==
    \/ trail.trail_file \notin DOMAIN files
    \/ Len(files[trail.trail_file]) < HeaderBytes

\* C11: when a trail's track file cannot be opened or is shorter than 8
\* bytes, loading it adds no point and leaves the trail's map id (and the
\* rest of the trail) as it was, and the same fill_poi_parents call loads the
\* trails that follow it and resolves the POIs.
C11_UnreadableTrackSkipped ==
    [][ (last'.op = "fill_poi_parents" /\ Unreadable(overlay_data.pois.trail_list[1])) =>
          LET before == overlay_data.pois
              after == overlay_data'.pois
          IN  /\ after.trail_list[1] = before.trail_list[1]
              /\ Len(after.trail_list[2].trail_data)
                    = Len(before.trail_list[2].trail_data) + FullTriples(SecondFile)
              /\ after.trail_list[2].poi.data.map_id
                    = Some(u32_from_le_bytes(SubSeq(SecondFile, 5, 8)))
              /\ \A p \in 1..Len(after.poi_list) :
                    after.poi_list[p].parent = Some(NodeRef(1, << >>))
      ]_vars

\* fill_poi_parents has run over a first track file of seven bytes: the first
\* trail still holds no point and the map id of its xml record, the second
\* trail is loaded and the POI is bound.
C11_Witness ==
    /\ last.op = "fill_poi_parents"
    /\ TrackName \in DOMAIN files
    /\ Len(files[TrackName]) = HeaderBytes - 1
    /\ overlay_data.pois.trail_list[1].trail_data = << >>
    /\ overlay_data.pois.trail_list[1].poi.data.map_id = Some(XmlMapIds.first)
    /\ Len(overlay_data.pois.trail_list[2].trail_data) = FullTriples(SecondFile)
    /\ overlay_data.pois.poi_list[1].parent = Some(NodeRef(1, << >>))

(***************************************************************************)
(* main.rs: the Update system update_gw2, once per frame.  It drains the   *)
(* socket with update_gw2(false) until a call returns false, then reads    *)
(* the region and moves the camera.  Datagrams arrive between frames here, *)
(* none while the loop runs.                                               *)
(***************************************************************************)
\* ToGw2Coordinate::to_gw2_coordinate: z *= -1.0 (a zero vector still
\* compares equal to Vec3::ZERO).
to_gw2_coordinate(v) == IF v.field = 0 THEN v ELSE [ v EXCEPT !.flip = "z" ]

\* -camera_front
Negated(v) == IF v.field = 0 THEN v ELSE [ v EXCEPT !.flip = "all" ]

\* Transform::look_to(direction, Vec3::Y): the rotations it can leave.  A
\* zero direction cannot be normalized: the engine either falls back to its
\* default direction (the identity rotation) or computes a rotation of NaNs.
look_to(direction) ==
    IF direction.field = 0
    THEN { [ kind |-> k, toward |-> Vec3(0, "none") ] : k \in { "identity", "nan" } }
    ELSE { [ kind |-> "look", toward |-> direction ] }

\* data.get_context().map_id, read from the bytes of the context field: of
\* the value 10 * i + k of chunk i the field holds k, and 0 in the zeroed
\* region.
context_map_id(context) == context % 10

\* The event writer after a frame that sends the event whatever the level.
send_map_change_every_frame(events, current_level, map_id) == Append(events, map_id)

\* if current_level_query.0 != map_id { ..; ev_map_change.send(..) }
send_map_change(events, current_level, map_id) ==
    IF current_level # map_id THEN Append(events, map_id) ELSE events

\* The frame starts: the system is entered with the events of the frame
\* before dropped.
FrameBegin ==
    /\ frame.pc = "idle"
    /\ frame' = [ frame EXCEPT !.pc = "draining", !.events = << >> ]
    /\ UNCHANGED <<gw2_data, socket, call, latest, ui, boot, side_vars>>
    /\ UNCHANGED <<mesh_vars, overlay_vars>>

\* One iteration of `while gw2link.update_gw2(false) {}`.
Drain ==
    /\ frame.pc = "draining"
    /\ update_gw2(FALSE)
    /\ frame' = [ frame EXCEPT !.pc = IF call'.ret THEN "draining" ELSE "drained" ]
    /\ UNCHANGED <<ui, boot, side_vars>>

\* The rest of the system: the camera is placed from get_gw2_data() and a
\* MapChangeEvent is sent when the map id differs from CurrentLevel.
Display ==
    /\ frame.pc = "drained"
    /\ LET data == gw2_data
           pos == Vec3(data.camera_position, "none")
           front == Vec3(data.camera_front, "none")
           camera_pos == IF custom_projection THEN pos ELSE to_gw2_coordinate(pos)
           camera_front == IF custom_projection THEN Negated(front)
                           ELSE to_gw2_coordinate(front)
           map_id == context_map_id(data.context)
       IN  \E rotation \in look_to(camera_front) :
              frame' = [ pc |-> "idle",
                         camera |-> [ translation |-> camera_pos, rotation |-> rotation ],
                         current_level |-> map_id,
                         events |-> send_map_change(frame.events, frame.current_level,
                                                    map_id) ]
    /\ UNCHANGED <<gw2_data, socket, call, latest, ui, boot, side_vars>>
    /\ UNCHANGED <<mesh_vars, overlay_vars>>

\* A datagram arrives while the system is not running.
Arrive ==
    /\ frame.pc = "idle"
    /\ Send

FrameInit ==
    /\ gw2_data = ZeroLinkedMem
    /\ socket = << >>
    /\ call = NoCall
    /\ latest = NoneOpt
    /\ frame = FrameIdle
    /\ ui = UiIdle
    /\ boot = BootIdle
    /\ SideIdle
    /\ MeshIdle
    /\ overlay_data = OverlayDataDefault
    /\ files = << >>
    /\ custom_projection \in BOOLEAN
    /\ pc = "loading"
    /\ calls = 0
    /\ last = NoOperation

FrameNext ==
    \/ Arrive
    \/ FrameBegin
    \/ Drain
    \/ Display

SpecFrame == FrameInit /\ [][FrameNext]_vars

\* C12: when the drain loop of a frame has exited (no datagram having arrived
\* while it ran), no datagram is pending on the socket: a malformed datagram
\* did not end the loop, the datagrams queued behind it were consumed.
C12_DrainLoopEmptiesSocket ==
    frame.pc = "drained" => socket = << >>

(***************************************************************************)
(* gw2link.rs: the region under update_gw2 calls alone, no other process   *)
(* writing to the segment.                                                 *)
(***************************************************************************)
PollInit == LinkInit

PollNext ==
    \/ Send
    \/ Poll

SpecPoll == PollInit /\ [][PollNext]_vars

\* C13: after any sequence of update_gw2 calls the region holds the
\* conversion of the valid-size (1364-byte) datagram received most recently,
\* or the all-zero record if none was received; and a call that consumed no
\* valid-size datagram left the region exactly as it was.
C13_RegionIsLatestValid ==
    /\ gw2_data = IF latest = NoneOpt THEN ZeroLinkedMem
                  ELSE FromNet(Transmute(Recv(latest[1]).data), ZeroLinkedMem)
    /\ (call.kind # "none"
        /\ ~(call.kind = "datagram" /\ DatagramSize(call.recv) = WireSize)) =>
            gw2_data = call.before

\* C14: in every frame in which the record read from the region has tick 0,
\* the rest of the system leaves the camera transform as it was: neither its
\* translation nor its rotation is set from the record.
C14_TickZeroKeepsCamera ==
    [][ (frame.pc = "drained" /\ frame'.pc = "idle" /\ gw2_data.ui_tick = 0) =>
            frame'.camera = frame.camera
      ]_vars

(***************************************************************************)
(* gw2link.rs: MumbleContext::get_ui_state.  ui_state is a u32; the model  *)
(* enumerates its bits 0..MaxUiBit, the seven flags of UiState and the     *)
(* unused bits above them.                                                 *)
(***************************************************************************)
MaxUiBit == 7

\* enum UiState: the flag of bit b, b in 0..6, has the mask 1 << b.
UiState ==
    << "MapOpen", "CompassTopRight", "CompassRotation", "GameFocus",
       "CompetetiveMode", "TextbookFocus", "Combat" >>

UiBits == 0..(Len(UiState) - 1)

UiMask(b) == 2 ^ b

\* state & option on u32.
RECURSIVE BitAnd(_, _)
BitAnd(a, b) ==
    IF a = 0 \/ b = 0 THEN 0
    ELSE (a % 2) * (b % 2) + 2 * BitAnd(a \div 2, b \div 2)

\* get_ui_state answering from the lowest bit of the state alone.
get_ui_state_lowest_bit(ui_state, option) == BitAnd(ui_state % 2, option) # 0

\* MumbleContext::get_ui_state(&self, option): res = state & option; res != 0.
get_ui_state(ui_state, option) == BitAnd(ui_state, option) # 0

UiInit ==
    /\ ui \in { [ ui_state |-> v, option |-> 0, res |-> FALSE ] :
                  v \in 0..(2 ^ (MaxUiBit + 1) - 1) }
    /\ gw2_data = ZeroLinkedMem
    /\ socket = << >>
    /\ call = NoCall
    /\ latest = NoneOpt
    /\ frame = FrameIdle
    /\ boot = BootIdle
    /\ SideIdle
    /\ MeshIdle
    /\ OverlayIdle

\* ctx.get_ui_state(1 << b) for a flag of UiState.
GetUiState ==
    /\ \E b \in UiBits :
          ui' = [ ui EXCEPT !.option = UiMask(b),
                            !.res = get_ui_state(ui.ui_state, UiMask(b)) ]
    /\ UNCHANGED <<gw2_data, socket, call, latest, frame, boot, side_vars>>
    /\ UNCHANGED <<mesh_vars, overlay_vars>>

UiNext == GetUiState

SpecUi == UiInit /\ [][UiNext]_vars

\* Bit b of the value v.
BitSet(v, b) == (v \div (2 ^ b)) % 2 = 1

\* The bit a one-bit mask selects.
BitOfMask(option) == CHOOSE b \in UiBits : UiMask(b) = option

\* C15: for every ui_state and every bit b in 0..6, get_ui_state with the
\* mask of bit b is true if and only if bit b is set in ui_state; when
\* exactly one of the bits is set, only the query for that bit is true.
C15_QueryReadsItsBit ==
    ui.option # 0 =>
        /\ ui.res = BitSet(ui.ui_state, BitOfMask(ui.option))
        /\ \A s \in UiBits :
              ui.ui_state = UiMask(s) => (ui.res = (s = BitOfMask(ui.option)))

\* Bit 6 (Combat) was queried on a state with bits 6 and 2 set and answered
\* true.
C15_Witness ==
    /\ ui.option = UiMask(6)
    /\ ui.ui_state = UiMask(6) + UiMask(2)
    /\ ui.res = TRUE

(***************************************************************************)
(* gw2link.rs: GW2Link::new.  The named segment /MumbleLink.<uid> may or   *)
(* may not exist when new is called; gw2_data holds the content of the     *)
(* segment.  Every system call new makes can succeed or fail.              *)
(***************************************************************************)
\* Packed byte size of each field of MumbleContext, in declaration order:
\* [u8;28], u32 x6, u16 x2, f32 x6, u32, u8.
ContextFieldBytes ==
    << 28, 4, 4, 4, 4, 4, 4, 2, 2, 4, 4, 4, 4, 4, 4, 4, 1 >>

\* static_assertions::const_assert_eq!(size_of::<MumbleContext>(), 85)
ContextSize == 85

\* What the system calls of one GW2Link::new call return: shm_open(O_RDWR),
\* shm_open(O_RDWR | O_CREAT) (a descriptor above 0, the descriptor 0 or an
\* error), ftruncate, mmap and UdpSocket::bind.
SyscallOutcomes ==
    [ open : { "ok", "err" }, create : { "fd", "fd0", "err" },
      ftruncate : { "ok", "err" }, mmap : { "ok", "err" }, bind : { "ok", "err" } ]

\* new has not been called: the segment exists or not, with a size and a
\* content.
BootStart(exists, size, content) ==
    [ pc |-> "start", exists |-> exists, size |-> size, before |-> content,
      path |-> "none", shm_opens |-> 0, ftruncated |-> NoneOpt, mapped |-> NoneOpt,
      failed |-> "none", link |-> "none", aborted |-> FALSE ]

\* new returns None or panics: no link, and the caller's unwrap ends startup.
NoLink(b, content, step) ==
    [ boot |-> [ b EXCEPT !.pc = "done", !.failed = step, !.link = "none",
                          !.aborted = TRUE ],
      gw2_data |-> content ]

\* mmap_and_bind returning a link although mmap failed.
mmap_and_bind_ignoring_mmap(b, content, o) ==
    IF b.size < LinkedMemSize
    THEN NoLink([ b EXCEPT !.mapped = Some(LinkedMemSize) ], content, "memset")
    ELSE [ boot |-> [ b EXCEPT !.pc = "done",
                               !.failed = IF o.mmap = "err" THEN "mmap" ELSE "none",
                               !.link = "some", !.mapped = Some(LinkedMemSize) ],
           gw2_data |-> ZeroLinkedMem ]

\* The second half of new: mmap of size_of::<LinkedMem>() bytes, memset of
\* the mapping to 0, create_socket().unwrap().  A mapping longer than the
\* segment faults in memset (SIGBUS).
mmap_and_bind(b, content, o) ==
    IF o.mmap = "err" THEN NoLink(b, content, "mmap")
    ELSE LET mapped == [ b EXCEPT !.mapped = Some(LinkedMemSize) ]
         IN  IF b.size < LinkedMemSize THEN NoLink(mapped, content, "memset")
             ELSE IF o.bind = "err" THEN NoLink(mapped, ZeroLinkedMem, "bind")
             ELSE [ boot |-> [ mapped EXCEPT !.pc = "done", !.link = "some" ],
                    gw2_data |-> ZeroLinkedMem ]

\* GW2Link::new: open the segment, on an error create and size it, then map.
new(b, content, o) ==
    IF o.open = "ok"
    THEN mmap_and_bind([ b EXCEPT !.path = "opened", !.shm_opens = 1 ], content, o)
    ELSE LET tried == [ b EXCEPT !.path = "created", !.shm_opens = 2 ]
             made == [ tried EXCEPT !.exists = TRUE,
                                    !.size = IF b.exists THEN b.size ELSE 0 ]
         IN  IF o.create = "err" THEN NoLink(tried, content, "create")
             ELSE IF o.create = "fd0" THEN NoLink(made, content, "fd_zero")
             ELSE IF o.ftruncate = "err" THEN NoLink(made, content, "ftruncate")
             ELSE mmap_and_bind([ made EXCEPT !.size = LinkedMemSize,
                                              !.ftruncated = Some(LinkedMemSize) ],
                                content, o)

\* The segment does not exist, exists with no size yet, or exists with the
\* size of LinkedMem and a content: zeros or another mapper's record.
BootInit ==
    /\ \/ boot = BootStart(FALSE, 0, ZeroLinkedMem) /\ gw2_data = ZeroLinkedMem
       \/ boot = BootStart(TRUE, 0, ZeroLinkedMem) /\ gw2_data = ZeroLinkedMem
       \/ \E content \in { ZeroLinkedMem } \cup { ExternalRecord(k) : k \in 0..MaxSeed } :
             /\ boot = BootStart(TRUE, LinkedMemSize, content)
             /\ gw2_data = content
    /\ socket = << >>
    /\ call = NoCall
    /\ latest = NoneOpt
    /\ AppIdle
    /\ MeshIdle
    /\ OverlayIdle

\* setup calls GW2Link::new().unwrap().
New ==
    /\ boot.pc = "start"
    /\ \E o \in SyscallOutcomes :
          /\ o.open = "ok" => boot.exists
          /\ boot' = new(boot, gw2_data, o).boot
          /\ gw2_data' = new(boot, gw2_data, o).gw2_data
    /\ UNCHANGED <<socket, call, latest, frame, ui, side_vars>>
    /\ UNCHANGED <<mesh_vars, overlay_vars>>

\* A datagram arrives on the socket the link has bound, once the datagram
\* before it was received.
BootSend ==
    /\ boot.link = "some"
    /\ socket = << >>
    /\ Send

\* update_gw2 is called on the link.
BootPoll ==
    /\ boot.link = "some"
    /\ Poll

BootNext ==
    \/ New
    \/ BootSend
    \/ BootPoll

SpecBoot == BootInit /\ [][BootNext]_vars

\* C16: the packed field sizes of MumbleContext sum to 85 bytes and those of
\* LinkedMemNet to 1364 bytes; LinkedMem is the wire record plus the
\* description of 2048 UTF-16 units (1364 + 4096 bytes), and this is the size
\* the segment is sized to by ftruncate and the length that is mapped.
C16_RecordSizes ==
    /\ SumTo(ContextFieldBytes, Len(ContextFieldBytes)) = ContextSize
    /\ STRUCT_SIZE = WireSize
    /\ LinkedMemSize = WireSize + 2 * 2048
    /\ boot.ftruncated # NoneOpt => boot.ftruncated = Some(1364 + 4096)
    /\ boot.mapped # NoneOpt => boot.mapped = Some(1364 + 4096)

\* new has created, sized and mapped the segment and returned a link.
C16_Witness ==
    /\ boot.pc = "done"
    /\ boot.path = "created"
    /\ boot.ftruncated # NoneOpt
    /\ boot.mapped # NoneOpt
    /\ boot.size = 1364 + 4096
    /\ boot.link = "some"

\* C17: GW2Link::new zero-fills the region only where it had to create the
\* segment: when a segment of that name existed and was opened, the content
\* it held before the call is still there when new has returned the link.
C17_ExistingContentKept ==
    (boot.pc = "done" /\ boot.link = "some" /\ call = NoCall) =>
        /\ boot.path = "opened" => gw2_data = boot.before
        /\ boot.path = "created" => gw2_data = ZeroLinkedMem

\* One of the steps the claim names has failed: creating the segment
\* (shm_open with O_CREAT failing or giving the descriptor 0), sizing it or
\* mapping it.
SegmentFailures == { "create", "fd_zero", "ftruncate", "mmap" }

\* C18: if creating, sizing or mapping the segment fails, GW2Link::new yields
\* no link and startup ends; shm_open was called at most twice (the open and
\* the create), and no datagram is received or written to the region
\* afterwards.
C18_FailureYieldsNoLink ==
    (boot.pc = "done" /\ boot.failed \in SegmentFailures) =>
        /\ boot.link = "none"
        /\ boot.aborted
        /\ boot.shm_opens <= 2
        /\ socket = << >>
        /\ call = NoCall
        /\ latest = NoneOpt
        /\ gw2_data = boot.before

\* The segment did not exist, was created and sized, and mmap failed.
C18_Witness ==
    /\ boot.pc = "done"
    /\ boot.failed = "mmap"
    /\ boot.path = "created"
    /\ boot.ftruncated # NoneOpt
    /\ boot.shm_opens = 2
    /\ boot.link = "none"

(***************************************************************************)
(* Parent resolution run again: merge and fill_poi_parents are public, so  *)
(* after the first fill more files may be merged and the parents filled    *)
(* once more.                                                              *)
(***************************************************************************)
RefillInit == ResolveInit

\* setup's fill_poi_parents call.
FirstFill ==
    /\ pc = "loading"
    /\ FillPoiParents

\* overlay_data.merge(data) after the parents were filled.
MergeMore(docs) ==
    /\ pc = "resolved"
    /\ \/ \E n \in 1..(MaxCats - CategoryCount(overlay_data)) :
             \E doc \in docs.categories[n] :
                overlay_data' = merge(overlay_data, from_string(doc))
       \/ /\ PoiCount(overlay_data) < MaxPois
          /\ \E doc \in docs.entries :
                overlay_data' = merge(overlay_data, from_string(doc))
    /\ last' = [ op |-> "merge" ]
    /\ UNCHANGED <<files, custom_projection, pc, calls>>
    /\ UNCHANGED <<link_vars, mesh_vars>>

\* fill_poi_parents called on overlay data whose parents were filled before.
FillAgain ==
    /\ pc = "resolved"
    /\ overlay_data' = fill_poi_parents(overlay_data)
    /\ last' = [ op |-> "fill_poi_parents_again" ]
    /\ UNCHANGED <<files, custom_projection, pc, calls>>
    /\ UNCHANGED <<link_vars, mesh_vars>>

RefillNext ==
    \/ LoadFile(ResolveDocuments)
    \/ FirstFill
    \/ MergeMore(ResolveDocuments)
    \/ FillAgain

SpecRefill == RefillInit /\ [][RefillNext]_vars

\* The POIs of the overlay data that have a parent.
BoundPois(od) ==
    { p \in 1..Len(od.pois.poi_list) : od.pois.poi_list[p].parent # NoneOpt }

\* C19: a POI's parent link only goes from unbound to bound: a POI that has
\* a parent has one after every step (a merge, fill_poi_parents run for the
\* first time or again), and no top-level category processed by the fill
\* takes the parent of a bound POI away.
C19_ParentStaysBound ==
    [][ /\ BoundPois(overlay_data) \subseteq BoundPois(overlay_data')
        /\ \A p \in BoundPois(overlay_data') :
              \A i \in 1..Len(overlay_data'.marker_category) :
                 fill_poi_category(overlay_data', overlay_data'.pois.poi_list[p], i).parent
                    # NoneOpt
      ]_vars

\* fill_poi_parents has run again over a bound POI and two top-level
\* categories, the second of which does not match the POI's type.
C19_Witness ==
    /\ last.op = "fill_poi_parents_again"
    /\ Len(overlay_data.marker_category) >= 2
    /\ \E p \in BoundPois(overlay_data) :
          /\ overlay_data.pois.poi_list[p].parent[1].root = 1
          /\ RootMatch(overlay_data, overlay_data.pois.poi_list[p], 2) = NoneOpt

\* The parent links of the overlay data: of the POIs, of the POI records of
\* the trails and of the categories.
ParentLinks(od) ==
    { od.pois.poi_list[p].parent : p \in 1..Len(od.pois.poi_list) }
    \cup { od.pois.trail_list[t].poi.parent : t \in 1..Len(od.pois.trail_list) }
    \cup { NodeAt(od, ref).data.parent : ref \in AllNodes(od) }

\* The walk up the parent links from a link ends within `hops` hops.
RECURSIVE WalkEnds(_, _, _)
WalkEnds(od, link, hops) ==
    \/ link = NoneOpt
    \/ /\ hops > 0
       /\ WalkEnds(od, NodeAt(od, link[1]).data.parent, hops - 1)

\* C20: after any sequence of construction from records, merge and
\* fill_poi_parents the parent relation is acyclic: the walk up from every
\* POI, trail and category ends at a record without parent before it could
\* visit a category twice, so the getters' recursion terminates.
C20_ParentsAcyclic ==
    \A link \in ParentLinks(overlay_data) :
        WalkEnds(overlay_data, link, CategoryCount(overlay_data))

\* Merged data with a nested category and a POI bound to it by the fill.
C20_Witness ==
    /\ last.op \in { "fill_poi_parents", "fill_poi_parents_again" }
    /\ \E p \in BoundPois(overlay_data) :
          overlay_data.pois.poi_list[p].parent[1].path # << >>

(***************************************************************************)
(* Locking.  Every POI, trail and category sits behind an Arc<RwLock<..>>. *)
(* A thread's run over the overlay data is the sequence of lock            *)
(* operations its code performs, interleaved with those of other threads:  *)
(* the resolution pass ("fill") and an attribute reader ("reader") as in   *)
(* map_change_event.  A guard that is a temporary of a `let` statement or  *)
(* of an `if` condition is released at its end; a guard in the body        *)
(* expression of a match arm or of a `return` lives until the call in that *)
(* expression has returned.                                                *)
(***************************************************************************)
MaxReads == 1       \* attribute reads the reader thread makes

TrailEntity(t) == [ kind |-> "trail", root |-> t, path |-> << >> ]

\* One operation of a thread: read().unwrap() / write().unwrap() on a
\* container, the drop of a guard, or a call made under a write guard.
LockOp(kind, node, mode) ==
    [ kind |-> kind, node |-> node, mode |-> mode, field |-> NoneOpt, parent |-> NoneOpt ]

Acquire(node, mode) == LockOp("acquire", node, mode)

Release(node, mode) == LockOp("release", node, mode)

\* get_<field>: `Some(parent) => parent.read().unwrap().data.get_<field>()`
\* keeps the parent's read guard until the parent's getter has returned.
RECURSIVE get_field_locks(_, _, _)
get_field_locks(od, poi, field) ==
    IF poi.data[field] # NoneOpt \/ poi.parent = NoneOpt THEN << >>
    ELSE LET parent == CategoryEntity(poi.parent[1])
         IN  << Acquire(parent, "read") >>
             \o get_field_locks(od, NodeAt(od, poi.parent[1]).data, field)
             \o << Release(parent, "read") >>

\* get_category_children: child.read() for the name is dropped with the
\* `let`; `return child.read().unwrap().get_category_children(pass_name)`
\* keeps the child's guard during the call.
RECURSIVE get_category_children_locks(_, _, _)
get_category_children_locks(self, ref, name) ==
    LET next_name == split_once(name)
        child_name == IF next_name # NoneOpt THEN next_name[1].first ELSE name
        pass_name == IF next_name # NoneOpt THEN next_name[1].second ELSE << >>
    IN  IF child_name \in DOMAIN self.children
        THEN LET child == self.children[child_name]
                 node == CategoryEntity(NodeRef(ref.root, Append(ref.path, child_name)))
                 probe == << Acquire(node, "read"), Release(node, "read") >>
             IN  IF name = child.name THEN probe
                 ELSE probe \o << Acquire(node, "read") >>
                      \o get_category_children_locks(
                            child, NodeRef(ref.root, Append(ref.path, child_name)),
                            pass_name)
                      \o << Release(node, "read") >>
        ELSE << >>

\* poi.write().unwrap().set_parent(parent)
set_parent_locked(p, parent) ==
    << Acquire(PoiEntity(p), "write"),
       [ LockOp("set_parent", PoiEntity(p), "write") EXCEPT !.parent = parent ],
       Release(PoiEntity(p), "write") >>

\* The inner closure of fill_poi_parents holding the POI's read guard
\* (`let poi_guard = poi.read().unwrap()`) to the end of the closure.
fill_poi_category_locks_guard_kept(od, p, i) ==
    LET poi == od.pois.poi_list[p]
        category == od.marker_category[i]
        root == CategoryEntity(NodeRef(i, << >>))
    IN  << Acquire(PoiEntity(p), "read") >>
        \o (IF poi.poi_type # NoneOpt /\ category.name = poi.poi_type[1]
            THEN << Acquire(root, "read"), Release(root, "read") >>
                 \o set_parent_locked(p, Some(NodeRef(i, << >>)))
            ELSE << >>)
        \o << Release(PoiEntity(p), "read") >>

\* The inner closure of fill_poi_parents for POI p and top-level category i.
fill_poi_category_locks(od, p, i) ==
    LET poi == od.pois.poi_list[p]
        category == od.marker_category[i]
        root == CategoryEntity(NodeRef(i, << >>))
        look == << Acquire(root, "read"), Release(root, "read") >>
        read_type == << Acquire(PoiEntity(p), "read"), Release(PoiEntity(p), "read") >>
    IN  IF poi.poi_type = NoneOpt THEN read_type
        ELSE LET name == poi.poi_type[1]
                 split == split_once(name)
                 first_name == IF split # NoneOpt THEN split[1].first ELSE name
                 second_name == IF split # NoneOpt THEN split[1].second ELSE << >>
                 found_category ==
                     get_category_children(category, NodeRef(i, << >>), second_name)
             IN  IF category.name = name
                 THEN read_type \o look \o set_parent_locked(p, Some(NodeRef(i, << >>)))
                 ELSE IF category.name = first_name
                      THEN read_type \o look \o look
                           \o << Acquire(root, "read") >>
                           \o get_category_children_locks(category, NodeRef(i, << >>),
                                                          second_name)
                           \o << Release(root, "read") >>
                           \o (IF found_category # NoneOpt
                               THEN set_parent_locked(p, found_category)
                               ELSE << >>)
                      ELSE read_type \o look \o look

\* The concatenation of the sequences of a sequence.
RECURSIVE Flatten(_)
Flatten(seqs) == IF seqs = << >> THEN << >> ELSE Head(seqs) \o Flatten(Tail(seqs))

\* fill_poi_parents: every trail is loaded under its write guard, then every
\* POI is passed to every top-level category.
fill_poi_parents_locks(od) ==
    Flatten([ t \in 1..Len(od.pois.trail_list) |->
                << Acquire(TrailEntity(t), "write"),
                   LockOp("load_map_trail", TrailEntity(t), "write"),
                   Release(TrailEntity(t), "write") >> ])
    \o Flatten([ p \in 1..Len(od.pois.poi_list) |->
                   Flatten([ i \in 1..Len(od.marker_category) |->
                               fill_poi_category_locks(od, p, i) ]) ])

\* A reader as in map_change_event: `let poi = poi_lock.read().unwrap()`,
\* then poi.get_map_id() and poi.get_icon_file() under that guard; the
\* getters' operations are known once the guard is held.
reader_locks(node) ==
    << [ Acquire(node, "read") EXCEPT !.field = Some("map_id") ], Release(node, "read") >>

\* The operations of the getters called under the guard on the record.
getters_locks(od, poi) ==
    get_field_locks(od, poi, "map_id") \o get_field_locks(od, poi, "icon_file")

\* The POI record behind a POI or trail container.
RecordOf(od, node) ==
    IF node.kind = "trail" THEN od.pois.trail_list[node.root].poi
    ELSE DataOf(od, node)

\* The guards held on a node by the threads in `among`.
Guards(among, node) ==
    { <<t, k>> \in among \X (1..(4 * MaxChain + 4)) :
        /\ k <= Len(threads.run[t].held)
        /\ threads.run[t].held[k].node = node }

WriterWaits(t, node) ==
    /\ threads.run[t].todo # << >>
    /\ Head(threads.run[t].todo) = Acquire(node, "write")

\* std::sync::RwLock: write() is granted when nobody holds a guard, read()
\* when nobody holds the write guard; an implementation that prefers
\* writers also keeps new readers out while a writer waits.  A thread that
\* asks for a lock its own guard excludes blocks for good.
CanAcquire(t, node, mode) ==
    IF mode = "write" THEN Guards(ThreadIds, node) = {}
    ELSE /\ \A g \in Guards(ThreadIds, node) :
               threads.run[g[1]].held[g[2]].mode = "read"
         /\ threads.policy = "writer_first" =>
               \A u \in ThreadIds \ { t } : ~WriterWaits(u, node)

\* The held guards without the guard released last on the node.
Dropped(held, node) ==
    LET at == CHOOSE k \in 1..Len(held) :
                 /\ held[k].node = node
                 /\ \A j \in (k + 1)..Len(held) : held[j].node # node
    IN  SubSeq(held, 1, at - 1) \o SubSeq(held, at + 1, Len(held))

\* The overlay data after the operation.
Applied(od, op) ==
    IF op.kind = "set_parent"
    THEN WithData(od, op.node, set_parent(DataOf(od, op.node), op.parent))
    ELSE IF op.kind = "load_map_trail"
         THEN [ od EXCEPT !.pois.trail_list[op.node.root] = load_map_trail(@) ]
         ELSE od

\* Thread t performs its next operation.
Step(t) ==
    /\ threads.run[t].todo # << >>
    /\ LET op == Head(threads.run[t].todo)
           rest == Tail(threads.run[t].todo)
           held == threads.run[t].held
       IN  /\ op.kind = "acquire" => CanAcquire(t, op.node, op.mode)
           /\ threads' =
                 [ threads EXCEPT
                     !.run[t].held =
                         IF op.kind = "acquire"
                         THEN Append(held, [ node |-> op.node, mode |-> op.mode ])
                         ELSE IF op.kind = "release" THEN Dropped(held, op.node)
                         ELSE held,
                     !.run[t].todo =
                         IF op.kind = "acquire" /\ op.field # NoneOpt
                         THEN getters_locks(overlay_data,
                                            RecordOf(overlay_data, op.node)) \o rest
                         ELSE rest ]
           /\ overlay_data' = Applied(overlay_data, op)
           /\ pc' = IF t = "fill" /\ rest = << >> THEN "resolved" ELSE pc
    /\ UNCHANGED <<files, custom_projection, calls, last>>
    /\ UNCHANGED <<gw2_data, socket, call, latest, frame, ui, boot, world>>
    /\ UNCHANGED mesh_vars

FillStep ==
    /\ pc = "filling"
    /\ Step("fill")

ReaderStep ==
    /\ threads.reads > 0
    /\ Step("reader")

\* setup calls overlay_data.fill_poi_parents().
StartFill ==
    /\ pc = "loading"
    /\ threads.run["fill"].todo = << >>
    /\ fill_poi_parents_locks(overlay_data) # << >>
    /\ threads' = [ threads EXCEPT !.run["fill"].todo = fill_poi_parents_locks(overlay_data) ]
    /\ pc' = "filling"
    /\ UNCHANGED <<overlay_data, files, custom_projection, calls, last>>
    /\ UNCHANGED <<gw2_data, socket, call, latest, frame, ui, boot, world>>
    /\ UNCHANGED mesh_vars

\* Another thread reads an attribute of a POI or of a trail.
StartRead ==
    /\ threads.run["reader"].todo = << >>
    /\ threads.reads < MaxReads
    /\ \E node \in { PoiEntity(p) : p \in 1..Len(overlay_data.pois.poi_list) }
                   \cup { TrailEntity(t) : t \in 1..Len(overlay_data.pois.trail_list) } :
          threads' = [ threads EXCEPT !.run["reader"].todo = reader_locks(node),
                                      !.reads = @ + 1 ]
    /\ UNCHANGED overlay_vars
    /\ UNCHANGED <<gw2_data, socket, call, latest, frame, ui, boot, world>>
    /\ UNCHANGED mesh_vars

\* set_parent on a nested category, before any thread runs.
WireCategory ==
    /\ pc = "loading"
    /\ threads.run = ThreadsIdle.run
    /\ threads.reads = 0
    /\ SetParentCategory

\* One chain of categories and one POI, as for the inheritance scenarios,
\* and a trail; the lock implementation prefers writers or not.
LocksInit ==
    /\ \E doc \in InheritDocuments :
          /\ doc.POI[1].map_id = NoneOpt
          /\ overlay_data = from_string([ doc EXCEPT !.Trail =
                                             << RawTrail(NoneOpt, NoneOpt) >> ])
    /\ files = << >>
    /\ custom_projection = FALSE
    /\ pc = "loading"
    /\ calls = 0
    /\ last = NoOperation
    /\ gw2_data = ZeroLinkedMem
    /\ socket = << >>
    /\ call = NoCall
    /\ latest = NoneOpt
    /\ frame = FrameIdle
    /\ ui = UiIdle
    /\ boot = BootIdle
    /\ world = WorldIdle
    /\ threads \in { [ ThreadsIdle EXCEPT !.policy = policy ] :
                       policy \in { "any", "writer_first" } }
    /\ MeshIdle

LocksNext ==
    \/ WireCategory
    \/ StartFill
    \/ StartRead
    \/ FillStep
    \/ ReaderStep

SpecLocks == LocksInit /\ [][LocksNext]_vars

\* The category guards a thread holds.
CategoryGuards(t) ==
    { k \in 1..Len(threads.run[t].held) : threads.run[t].held[k].node.kind = "category" }

\* C21: during a getter's walk up the parent chain the read lock of each
\* category is released before the lock of the next category up is acquired:
\* the walking thread holds at most one category lock at any moment.
C21_OneCategoryLockHeld ==
    Cardinality(CategoryGuards("reader")) <= 1

\* Thread t has an operation left and is not blocked on it.
Runnable(t) ==
    /\ threads.run[t].todo # << >>
    /\ Head(threads.run[t].todo).kind = "acquire" =>
          CanAcquire(t, Head(threads.run[t].todo).node, Head(threads.run[t].todo).mode)

\* Thread t waits for a lock that another thread's guard keeps from it.
Blocked(t) == threads.run[t].todo # << >> /\ ~Runnable(t)

\* C27: fill_poi_parents always runs to completion without deadlock, also
\* while attribute readers run concurrently: it never requests the write lock
\* of a POI or trail while it still holds a read lock on that entity, it
\* holds no write lock while it acquires a category lock, and whenever it
\* waits for a lock the guard in its way belongs to a reader that can run
\* on to release it, while a reader that waits finds the pass able to run.
C27_FillCompletes ==
    LET fill == threads.run["fill"]
    IN  /\ fill.todo # << >> =>
              /\ Head(fill.todo).kind = "acquire" /\ Head(fill.todo).mode = "write" =>
                    Guards({ "fill" }, Head(fill.todo).node) = {}
              /\ Head(fill.todo).kind = "acquire" /\ Head(fill.todo).node.kind = "category" =>
                    \A k \in 1..Len(fill.held) : fill.held[k].mode = "read"
        /\ Blocked("fill") =>
              /\ Guards({ "reader" }, Head(fill.todo).node) # {}
              /\ Runnable("reader")
        /\ Blocked("reader") => Runnable("fill")
        /\ pc = "resolved" => fill.held = << >>

\* The pass waits for the write lock of the POI while a reader holds its
\* read lock.
C27_Witness ==
    /\ WriterWaits("fill", PoiEntity(1))
    /\ Guards({ "reader" }, PoiEntity(1)) # {}
    /\ ~Runnable("fill")

(***************************************************************************)
(* Numeric attributes.  An XML attribute arrives as a string; the numeric  *)
(* fields of Position and InheritablePOIData are parsed from it by         *)
(* deserialize_string_to_number and deserialize_option_string_to_number.   *)
(* Strings are made of a digit, a minus sign and a letter; of the          *)
(* attributes the text model keeps MapID (u32), alpha (f32, like iconSize, *)
(* fadeNear, fadeFar and heightOffset) and xpos (f32, like ypos and zpos). *)
(***************************************************************************)
MaxFiles == 1       \* xml files setup finds

Ok(v) == [ ok |-> TRUE, val |-> << v >> ]

Err == [ ok |-> FALSE, val |-> << >> ]

Digit == "5"

RECURSIVE DigitsValue(_)
DigitsValue(buf) ==
    IF buf = << >> THEN 0 ELSE 10 * DigitsValue(SubSeq(buf, 1, Len(buf) - 1)) + 5

IsDigits(buf) == buf # << >> /\ \A i \in 1..Len(buf) : buf[i] = Digit

\* str::parse::<u32>
parse_u32(buf) == IF IsDigits(buf) THEN Ok(DigitsValue(buf)) ELSE Err

\* str::parse::<f32>: an optional sign, then digits.
parse_f32(buf) ==
    IF IsDigits(buf) THEN Ok([ neg |-> FALSE, mag |-> DigitsValue(buf) ])
    ELSE IF buf # << >> /\ Head(buf) = "-" /\ IsDigits(Tail(buf))
         THEN Ok([ neg |-> TRUE, mag |-> DigitsValue(Tail(buf)) ])
         ELSE Err

\* deserialize_option_string_to_number on an attribute that is present:
\* Ok(Some(v)), or Ok(None) when the string does not parse.
deserialize_option_string_to_number(parsed) ==
    IF parsed.ok THEN Ok(Some(parsed.val[1])) ELSE Ok(NoneOpt)

\* deserialize_string_to_number: the value, or the parse error as a
\* deserialization error.
deserialize_string_to_number(parsed) == parsed

\* The derived Deserialize of POI (Position and InheritablePOIData
\* flattened) on the numeric attributes of one element; a missing attribute
\* takes the serde default.
deserialize_numbers(attrs) ==
    LET map_id == IF attrs.MapID = NoneOpt THEN Ok(NoneOpt)
                  ELSE deserialize_option_string_to_number(parse_u32(attrs.MapID[1]))
        alpha == IF attrs.alpha = NoneOpt THEN Ok(NoneOpt)
                 ELSE deserialize_option_string_to_number(parse_f32(attrs.alpha[1]))
        xpos == IF attrs.xpos = NoneOpt THEN Ok([ neg |-> FALSE, mag |-> 0 ])
                ELSE deserialize_string_to_number(parse_f32(attrs.xpos[1]))
    IN  IF xpos.ok
        THEN Ok([ poi_type |-> NoneOpt,
                  pos |-> [ xpos |-> xpos.val[1] ],
                  data |-> [ map_id |-> map_id.val[1], alpha |-> alpha.val[1],
                             icon_file |-> NoneOpt ],
                  parent |-> NoneOpt ])
        ELSE Err

\* Vec::<T>::deserialize: the elements in order, or the first error.
deserialize_vec(elements) ==
    IF \A i \in 1..Len(elements) : deserialize_numbers(elements[i]).ok
    THEN Ok([ i \in 1..Len(elements) |-> deserialize_numbers(elements[i]).val[1] ])
    ELSE Err

\* deserialize_poi_vec: an error of the vector is answered with no POIs.
deserialize_poi_vec(elements) ==
    IF deserialize_vec(elements).ok THEN deserialize_vec(elements) ELSE Ok(<< >>)

\* deserialize_trail_vec: `Vec::<Trail>::deserialize(deserializer)?`.
deserialize_trail_vec(elements) ==
    IF deserialize_vec(elements).ok
    THEN Ok([ i \in 1..Len(elements) |->
                Trail("track.trl", deserialize_vec(elements).val[1][i], << >>) ])
    ELSE Err

\* deserialize_marker_category_vec on categories without children.
deserialize_category_numbers_vec(elements) ==
    IF deserialize_vec(elements).ok
    THEN Ok([ i \in 1..Len(elements) |->
                MarkerCategory(NameA, << >>, deserialize_vec(elements).val[1][i]) ])
    ELSE Err

\* OverlayData::from_file on the text of a file.
from_file(text) ==
    LET marker_category == deserialize_category_numbers_vec(text.MarkerCategory)
        poi_list == deserialize_poi_vec(text.POI)
        trail_list == deserialize_trail_vec(text.Trail)
    IN  IF marker_category.ok /\ trail_list.ok
        THEN Ok([ marker_category |-> marker_category.val[1],
                  pois |-> [ poi_list |-> poi_list.val[1],
                             trail_list |-> trail_list.val[1] ] ])
        ELSE Err

\* The value strings of an attribute: missing, a number, a negative number,
\* not a number.
AttrStrings == { NoneOpt, Some(<< Digit >>), Some(<< "-", Digit >>), Some(<< "x" >>) }

Attrs(MapID, alpha, xpos) == [ MapID |-> MapID, alpha |-> alpha, xpos |-> xpos ]

GoodAttrs == Attrs(Some(<< Digit, Digit >>), Some(<< Digit >>), Some(<< Digit >>))

\* Files of two <POI> elements, the first with any attribute strings, at
\* most one category and at most one trail, whose xpos parses or not.
TextFiles ==
    { Document(categories, << first, GoodAttrs >>, trails) :
        first \in { Attrs(m, a, x) : m \in AttrStrings, a \in AttrStrings, x \in AttrStrings },
        categories \in { << >>, << GoodAttrs >>, << [ GoodAttrs EXCEPT !.xpos = Some(<< "x" >>) ] >> },
        trails \in { << >>, << GoodAttrs >>, << [ GoodAttrs EXCEPT !.xpos = Some(<< "x" >>) ] >> } }

ParseInit ==
    /\ overlay_data = [ marker_category |-> << >>,
                        pois |-> [ poi_list |-> << >>, trail_list |-> << >> ] ]
    /\ files = << >>
    /\ custom_projection = FALSE
    /\ pc = "loading"
    /\ calls = 0
    /\ last = NoOperation
    /\ LinkIdle
    /\ MeshIdle

\* setup, one xml file: from_file, then merge or the logged error.
LoadText ==
    /\ calls < MaxFiles
    /\ \E text \in TextFiles :
          /\ overlay_data' = IF from_file(text).ok
                             THEN merge(overlay_data, from_file(text).val[1])
                             ELSE overlay_data
          /\ last' = [ op |-> "from_file", text |-> text, ok |-> from_file(text).ok,
                       before |-> overlay_data ]
    /\ calls' = calls + 1
    /\ UNCHANGED <<files, custom_projection, pc>>
    /\ UNCHANGED <<link_vars, mesh_vars>>

ParseNext == LoadText

SpecParse == ParseInit /\ [][ParseNext]_vars

\* The records the last file added to a list.
Added(before, after) == SubSeq(after, Len(before) + 1, Len(after))

\* The record was loaded with each numeric attribute absent where its
\* string does not parse.
LoadedAs(record, attrs) ==
    /\ attrs.MapID # NoneOpt /\ ~parse_u32(attrs.MapID[1]).ok => record.data.map_id = NoneOpt
    /\ attrs.alpha # NoneOpt /\ ~parse_f32(attrs.alpha[1]).ok => record.data.alpha = NoneOpt
    /\ attrs.MapID # NoneOpt /\ parse_u32(attrs.MapID[1]).ok =>
          record.data.map_id = parse_u32(attrs.MapID[1]).val
    /\ attrs.alpha # NoneOpt /\ parse_f32(attrs.alpha[1]).ok =>
          record.data.alpha = parse_f32(attrs.alpha[1]).val

\* C22: for every numeric attribute of a POI or category record (map id,
\* sizes, alpha, fades, offsets, position coordinates) a value string that
\* fails numeric parsing makes that one attribute absent and is no parse
\* error: the record and the other records of the file are still loaded.
C22_BadNumberOnlyAbsent ==
    last.op = "from_file" =>
        LET pois == Added(last.before.pois.poi_list, overlay_data.pois.poi_list)
            trails == Added(last.before.pois.trail_list, overlay_data.pois.trail_list)
            categories == Added(last.before.marker_category, overlay_data.marker_category)
        IN  /\ last.ok
            /\ Len(pois) = Len(last.text.POI)
            /\ Len(trails) = Len(last.text.Trail)
            /\ Len(categories) = Len(last.text.MarkerCategory)
            /\ \A i \in 1..Len(pois) : LoadedAs(pois[i], last.text.POI[i])
            /\ \A i \in 1..Len(trails) : LoadedAs(trails[i].poi, last.text.Trail[i])
            /\ \A i \in 1..Len(categories) :
                  LoadedAs(categories[i].data, last.text.MarkerCategory[i])

(***************************************************************************)
(* main.rs, map_change_event: the marker entities of the world.  An entity *)
(* is a POI marker (component BevyPOI) or one mesh of a trail (component   *)
(* BevyTrail); `born` is the number of the event whose handling spawned    *)
(* it.  The commands of a run of the system are applied when it returns.   *)
(***************************************************************************)
MaxEvents == 2      \* map changes the game goes through

FullTrackFile(seed) == TrackFile(seed, HeaderBytes + coord_size * MaxTriples)

\* The map id in the header of a full track file written with the seed.
TrackMapId(seed) == u32_from_le_bytes(SubSeq(FullTrackFile(seed), 5, 8))

\* The maps of the world: map 0 and the maps of the two track files.
WorldMaps == { 0, TrackMapId(0), TrackMapId(1) }

\* The file systems of the world: the first track file is missing or full.
WorldFiles ==
    { (SecondName :> SecondFile) @@ fs :
        fs \in { << >> } \cup
               { [ n \in { TrackName } |-> FullTrackFile(seed) ] : seed \in TrackSeeds } }

\* One category, two POIs and two trails: the first POI of any type, icon
\* and map, the second without a type.
WorldDocuments ==
    { Document(<< RawCategory([ name |-> NameA, icon_file |-> icon ], << >>) >>,
               << RawPoi(poi_type, icon_1, map_1), RawPoi(NoneOpt, icon_2, map_2) >>,
               << RawTrail(NoneOpt, NoneOpt),
                  [ RawTrail(NoneOpt, NoneOpt) EXCEPT !.trail_file = SecondName ] >>) :
        icon \in { NoneOpt, Some(1) }, poi_type \in { NoneOpt, Some(NameA) },
        icon_1 \in { NoneOpt, Some(PoiValues.icon_file) },
        icon_2 \in { NoneOpt, Some(PoiValues.icon_file) },
        map_1 \in { NoneOpt } \cup { Some(m) : m \in WorldMaps \ { 0 } },
        map_2 \in { NoneOpt } \cup { Some(m) : m \in WorldMaps \ { 0 } } }

Marker(kind, index, mesh, born) ==
    [ kind |-> kind, index |-> index, mesh |-> mesh, born |-> born ]

\* poi.get_map_id().unwrap_or(0)
map_id_or_0(od, poi) ==
    IF get_field(od, poi, "map_id") = NoneOpt THEN 0 ELSE get_field(od, poi, "map_id")[1]

\* The closure over poi_list stopping the whole iteration at the first POI
\* of the map without an icon.
spawned_pois_until_missing_icon(od, current_map, born) ==
    { Marker("poi", p, 0, born) : p \in
        { q \in 1..Len(od.pois.poi_list) :
            /\ current_map = map_id_or_0(od, od.pois.poi_list[q])
            /\ \A r \in 1..q :
                  current_map = map_id_or_0(od, od.pois.poi_list[r]) =>
                     get_field(od, od.pois.poi_list[r], "icon_file") # NoneOpt } }

\* The closure over poi_list: a POI of the map is spawned unless it has no
\* icon, in which case the closure returns for this POI.
spawned_pois(od, current_map, born) ==
    { Marker("poi", p, 0, born) : p \in
        { q \in 1..Len(od.pois.poi_list) :
            /\ current_map = map_id_or_0(od, od.pois.poi_list[q])
            /\ get_field(od, od.pois.poi_list[q], "icon_file") # NoneOpt } }

\* The closure over trail_list: one entity for each mesh of a trail of the
\* map.
spawned_trails(od, current_map, born) ==
    UNION { { Marker("trail", t, k, born) :
                k \in 1..Len(generate_meshes(od.pois.trail_list[t].trail_data)) } :
            t \in { u \in 1..Len(od.pois.trail_list) :
                      current_map = map_id_or_0(od, od.pois.trail_list[u].poi) } }

\* The entities after one event: those matched by Query<(Entity,
\* With<BevyPOI>)> are despawned, the markers of the map are spawned.
map_change_event(od, live, current_map, born) ==
    { e \in live : e.kind # "poi" }
    \cup spawned_pois(od, current_map, born)
    \cup spawned_trails(od, current_map, born)

\* setup has loaded the files and resolved the data; no entity yet.
WorldInit ==
    /\ files \in WorldFiles
    /\ custom_projection = FALSE
    /\ \E doc \in WorldDocuments : overlay_data = fill_poi_parents(from_string(doc))
    /\ pc = "resolved"
    /\ calls = 0
    /\ last = [ op |-> "fill_poi_parents" ]
    /\ LinkIdle
    /\ MeshIdle

\* The update_gw2 system finds the map id of the snapshot different from the
\* current level: it stores it and sends the event.  The handler runs every
\* frame, so no earlier event is pending.
ChangeMap ==
    /\ frame.events = << >>
    /\ Len(world.handled) < MaxEvents
    /\ \E map_id \in WorldMaps :
          /\ frame.current_level # map_id
          /\ frame' = [ frame EXCEPT !.current_level = map_id, !.events = << map_id >> ]
    /\ UNCHANGED <<gw2_data, socket, call, latest, ui, boot, threads, world>>
    /\ UNCHANGED <<mesh_vars, overlay_vars>>

\* The map_change_event system reads the pending event.
MapChangeEvent ==
    /\ frame.events # << >>
    /\ world' = [ live |-> map_change_event(overlay_data, world.live, Head(frame.events),
                                            Len(world.handled) + 1),
                  handled |-> Append(world.handled, Head(frame.events)) ]
    /\ frame' = [ frame EXCEPT !.events = Tail(@) ]
    /\ UNCHANGED <<gw2_data, socket, call, latest, ui, boot, threads>>
    /\ UNCHANGED <<mesh_vars, overlay_vars>>

WorldNext ==
    \/ ChangeMap
    \/ MapChangeEvent

SpecWorld == WorldInit /\ [][WorldNext]_vars

\* The POI or trail record an entity was spawned for.
RecordOfMarker(e) ==
    IF e.kind = "poi" THEN overlay_data.pois.poi_list[e.index]
    ELSE overlay_data.pois.trail_list[e.index].poi

\* The POIs of the map the last handled event names.
PoisOnMap ==
    { p \in 1..Len(overlay_data.pois.poi_list) :
        map_id_or_0(overlay_data, overlay_data.pois.poi_list[p]) =
            world.handled[Len(world.handled)] }

TrailsOnMap ==
    { t \in 1..Len(overlay_data.pois.trail_list) :
        map_id_or_0(overlay_data, overlay_data.pois.trail_list[t].poi) =
            world.handled[Len(world.handled)] }

NoIcon(p) == get_field(overlay_data, overlay_data.pois.poi_list[p], "icon_file") = NoneOpt

\* C23: on a map-change event a POI of the new map whose get_icon_file is
\* none spawns no marker entity and raises no failure: every other POI of the
\* map has its marker and every trail of the map an entity for each of its
\* meshes, all spawned by this event.
C23_MissingIconSkipsOnlyThatPoi ==
    world.handled # << >> =>
        /\ \A p \in PoisOnMap :
              IF NoIcon(p)
              THEN \A e \in world.live : ~(e.kind = "poi" /\ e.index = p)
              ELSE Marker("poi", p, 0, Len(world.handled)) \in world.live
        /\ \A t \in TrailsOnMap :
              \A k \in 1..Len(generate_meshes(overlay_data.pois.trail_list[t].trail_data)) :
                 Marker("trail", t, k, Len(world.handled)) \in world.live

\* The first POI of the map has no icon; the second POI and a trail of the
\* map were spawned by the event.
C23_Witness ==
    /\ world.handled # << >>
    /\ PoisOnMap = { 1, 2 }
    /\ NoIcon(1)
    /\ Marker("poi", 2, 0, Len(world.handled)) \in world.live
    /\ \E t \in TrailsOnMap : Marker("trail", t, 1, Len(world.handled)) \in world.live

\* C29: once the map-change events sent so far have been handled and the
\* commands applied, every live POI marker and trail mesh entity belongs to
\* a POI or trail whose resolved map id is the most recent map; the entities
\* of an earlier map have been despawned.
C29_LiveEntitiesOnCurrentMap ==
    world.handled # << >> /\ frame.events = << >> =>
        \A e \in world.live :
           map_id_or_0(overlay_data, RecordOfMarker(e)) = world.handled[Len(world.handled)]

(***************************************************************************)
(* trail.rs, generate_meshes: the quads and meshes of the ribbon.          *)
(***************************************************************************)
\* The pairs <<j, i>> of point indices the quads of mesh m join.
QuadsOf(m) ==
    { m.vertices[v].tex_coord[2].frac :
        v \in { w \in 1..Len(m.vertices) : w % 4 = 3 } }

\* C24: for every input point sequence no quad emitted by generate_meshes
\* connects two real points with a sentinel between them, also when the
\* strip before the sentinel is a single point.
C24_NoQuadAcrossSentinel ==
    meshes.done =>
        \A k \in 1..Len(meshes.meshes) :
           \A quad \in QuadsOf(meshes.meshes[k]) :
              \A s \in SentinelsOf(trail_data) : ~(quad[1] < s /\ s < quad[2])

\* The indices of the q-th quad of a mesh, counted from 0.
QuadIndices(q) ==
    << 4 * q, 4 * q + 1, 4 * q + 2, 4 * q + 2, 4 * q + 3, 4 * q >>

\* C30: every mesh emitted by generate_meshes has q >= 1 quads with exactly
\* 4q vertices and 6q indices, every index below the vertex count and the
\* numbering restarting at 0 in each mesh; leading, trailing or consecutive
\* sentinels never produce an empty mesh.
C30_MeshesWellFormed ==
    meshes.done =>
        \A k \in 1..Len(meshes.meshes) :
           LET m == meshes.meshes[k]
               q == Len(m.vertices) \div 4
           IN  /\ q >= 1
               /\ Len(m.vertices) = 4 * q
               /\ Len(m.indices) = 6 * q
               /\ \A i \in 1..Len(m.indices) : m.indices[i] < Len(m.vertices)
               /\ m.indices = Flatten([ r \in 1..q |-> QuadIndices(r - 1) ])

\* Two strips of two points with a sentinel between them: two meshes of one
\* quad each, the second numbered from 0 again.
C30_Witness ==
    /\ meshes.done
    /\ Len(trail_data) = 5
    /\ SentinelsOf(trail_data) = { 3 }
    /\ Len(meshes.meshes) = 2
    /\ meshes.meshes[2].indices = QuadIndices(0)

(***************************************************************************)
(* gw2poi.rs, get_category_children called on any category with any       *)
(* dotted name.                                                            *)
(***************************************************************************)
\* The number of children get_category_children visits: one for each call
\* in which children.get(child_name) finds a child.
RECURSIVE get_category_children_hops(_, _)
get_category_children_hops(self, name) ==
    LET next_name == split_once(name)
        child_name == IF next_name # NoneOpt THEN next_name[1].first ELSE name
        pass_name == IF next_name # NoneOpt THEN next_name[1].second ELSE << >>
    IN  IF child_name \in DOMAIN self.children
        THEN IF name = self.children[child_name].name THEN 1
             ELSE 1 + get_category_children_hops(self.children[child_name], pass_name)
        ELSE 0

\* The dotted names looked up: up to MaxChain + 1 segments, and the empty
\* name.
LookupNames == { Join(segments) : segments \in SeqsUpTo(Segments, MaxChain + 1) }

\* The categories of one loaded file: a forest of up to MaxCats categories.
LookupInit ==
    /\ \E n \in 1..MaxCats :
          \E doc \in ResolveDocuments.categories[n] : overlay_data = from_string(doc)
    /\ files = << >>
    /\ custom_projection = FALSE
    /\ pc = "loading"
    /\ calls = 0
    /\ last = NoOperation
    /\ LinkIdle
    /\ MeshIdle

\* category.read().unwrap().get_category_children(name)
GetCategoryChildren ==
    /\ last.op # "get_category_children"
    /\ \E ref \in AllNodes(overlay_data), name \in LookupNames :
          last' = [ op |-> "get_category_children", node |-> ref, name |-> name,
                    result |-> get_category_children(NodeAt(overlay_data, ref), ref, name),
                    hops |-> get_category_children_hops(NodeAt(overlay_data, ref), name) ]
    /\ UNCHANGED <<overlay_data, files, custom_projection, pc, calls>>
    /\ UNCHANGED <<link_vars, mesh_vars>>

LookupNext == GetCategoryChildren

SpecLookup == LookupInit /\ [][LookupNext]_vars

\* The segments of a dotted name.
RECURSIVE SegmentsOf(_)
SegmentsOf(name) ==
    IF split_once(name) = NoneOpt THEN << name >>
    ELSE << split_once(name)[1].first >> \o SegmentsOf(split_once(name)[1].second)

\* The node reached from ref by taking, segment after segment, the child of
\* that name; none when a segment names no child.
RECURSIVE SegmentWalk(_, _, _)
SegmentWalk(od, ref, segments) ==
    IF segments = << >> THEN Some(ref)
    ELSE IF Head(segments) \in DOMAIN NodeAt(od, ref).children
         THEN SegmentWalk(od, NodeRef(ref.root, Append(ref.path, Head(segments))),
                          Tail(segments))
         ELSE NoneOpt

\* C25: get_category_children(node, path) returns a node only when the
\* segments of path name successive children starting at node's immediate
\* children, and then the node named by the last segment; it returns none
\* when any segment is missing, in particular when path is just the leaf
\* name of a descendant that is no immediate child; it takes at most one hop
\* for each segment.
C25_LookupFollowsSegments ==
    last.op = "get_category_children" =>
        LET segments == SegmentsOf(last.name)
        IN  /\ last.result = SegmentWalk(overlay_data, last.node, segments)
            /\ last.result # NoneOpt =>
                  NodeAt(overlay_data, last.result[1]).name = segments[Len(segments)]
            /\ last.hops <= Len(segments)
            /\ \A p \in PathsBelow(NodeAt(overlay_data, last.node)) :
                  (Len(p) >= 2 /\ last.name = p[Len(p)] /\ segments = << last.name >>
                   /\ last.name \notin DOMAIN NodeAt(overlay_data, last.node).children)
                  => last.result = NoneOpt

\* A name of two segments looked up from a top-level category led to the
\* grandchild in two hops.
C25_Witness ==
    /\ last.op = "get_category_children"
    /\ last.node.path = << >>
    /\ Len(SegmentsOf(last.name)) = 2
    /\ last.result # NoneOpt
    /\ Len(last.result[1].path) = 2
    /\ last.hops = 2

(***************************************************************************)
(* overlay_data.rs, fill_poi_parents over POIs some of which no category   *)
(* matches.                                                                *)
(***************************************************************************)
\* One tree of categories and two POIs, each without a type or with one of
\* the type paths.
UnmatchedInit ==
    /\ \E n \in 1..MaxCats :
          \E doc \in ResolveDocuments.categories[n], first \in ResolvePois,
             second \in ResolvePois :
             overlay_data = from_string([ doc EXCEPT !.POI = << first, second >> ])
    /\ files = << >>
    /\ custom_projection = FALSE
    /\ pc = "loading"
    /\ calls = 0
    /\ last = NoOperation
    /\ LinkIdle
    /\ MeshIdle

UnmatchedNext == FirstFill

SpecUnmatched == UnmatchedInit /\ [][UnmatchedNext]_vars

\* The POIs without a type_path or whose type_path is the dotted path of no
\* category.
UnmatchedPois(od) ==
    { p \in 1..Len(od.pois.poi_list) :
        \/ od.pois.poi_list[p].poi_type = NoneOpt
        \/ NodesAtPath(od, od.pois.poi_list[p].poi_type[1]) = {} }

\* C26: fill_poi_parents leaves the parent of a POI untouched when the POI
\* has no type_path or its type_path matches no category; it reports no
\* error and still resolves every other POI.
C26_UnmatchedLeftAlone ==
    last.op = "fill_poi_parents" =>
        /\ pc = "resolved"
        /\ \A p \in UnmatchedPois(overlay_data) :
              overlay_data.pois.poi_list[p].parent = NoneOpt
        /\ \A p \in TypedPois(overlay_data) \ UnmatchedPois(overlay_data) :
              \A ref \in NodesAtPath(overlay_data, overlay_data.pois.poi_list[p].poi_type[1]) :
                 DotFree(overlay_data, ref) => overlay_data.pois.poi_list[p].parent = Some(ref)

\* The first POI names no category and has no parent; the second is bound
\* to a category below the root.
C26_Witness ==
    /\ last.op = "fill_poi_parents"
    /\ 1 \in UnmatchedPois(overlay_data) \cap TypedPois(overlay_data)
    /\ overlay_data.pois.poi_list[2].parent # NoneOpt
    /\ overlay_data.pois.poi_list[2].parent[1].path # << >>

(***************************************************************************)
(* main.rs, the update_gw2 system and CurrentLevel.                        *)
(***************************************************************************)
\* C28: each frame the update_gw2 system sends MapChangeEvent(m) exactly
\* when the map id m of the snapshot's context differs from the stored
\* current level, and after the frame the current level is m; from level 0
\* and a zeroed region no event is sent until a record with a non-zero map
\* id has been consumed.
C28_EventIffMapDiffers ==
    /\ [](gw2_data = ZeroLinkedMem => frame.current_level = 0 /\ frame.events = << >>)
    /\ [][ (frame.pc = "drained" /\ frame'.pc = "idle") =>
              LET m == context_map_id(gw2_data.context)
              IN  /\ frame'.current_level = m
                  /\ frame.current_level # m => frame'.events = Append(frame.events, m)
                  /\ frame.current_level = m => frame'.events = frame.events
                  /\ (frame.current_level = 0 /\ m = 0) => frame'.events = << >>
         ]_vars

\* A frame consumed a record with map id 1 at level 0 and sent the event.
C28_Witness ==
    /\ frame.pc = "idle"
    /\ frame.events = << 1 >>
    /\ frame.current_level = 1
    /\ context_map_id(gw2_data.context) = 1

==============================================================================
